---- MODULE Spec2Model ----
(***************************************************************************)
(* Verification model of wt (default-anton/wt).                            *)
(*                                                                         *)
(*   Spec      the interactive fuzzy selector session                      *)
(*             (internal/tui/selector.go: Select, MultiSelect,             *)
(*             selectorModel.Update, selectorModel.filterItems)            *)
(*   SpecCopy  the pattern based file copier                               *)
(*             (internal/copy/copy.go: CopyFiles and its helpers)          *)
(*                                                                         *)
(* Strings are sequences of characters; a character is a one-letter TLA+   *)
(* string.  Indices into Go slices and strings are kept 0-based, as in the *)
(* source, so element i of a Go slice s is s[i + 1] here.                  *)
(***************************************************************************)
EXTENDS Integers, Sequences, FiniteSets, TLC

VARIABLES
    \* ---- selector session (selector.go) ----
    items,        \* selectorModel.items: backing list of [Label, Value]
    multiSelect,  \* selectorModel.multiSelect
    filtered,     \* selectorModel.filtered: ranked view (scoredItem records)
    cursor,       \* selectorModel.cursor
    selected,     \* selectorModel.selected
    query,        \* selectorModel.textInput.Value()
    quitting,     \* selectorModel.quitting
    checked,      \* selectorModel.checked: origIndex -> bool
    cancelled,    \* selectorModel.cancelled
    quitSent,     \* a tea.Quit command has been returned, QuitMsg in flight
    phase,        \* position of Select / MultiSelect
    tty,          \* the /dev/tty handle
    err,          \* error returned by Select / MultiSelect
    retValue,     \* string returned by Select
    retValues,    \* slice returned by MultiSelect
    lastKey,      \* last key handled by Update: "edit" when it changed the query
    termKey,      \* first terminating key handled by Update
    atConfirm,    \* value under the cursor when enter was first handled; in a
                  \* prompt, the last left/right key before the terminating key
    \* ---- CopyFiles (copy.go) ----
    patterns,     \* the patterns argument
    srcDir,       \* the tree below srcDir
    destDir,      \* the tree below destDir
    matches,      \* CopyFiles.matches after the exclude loop
    paths,        \* CopyFiles.paths: the Copy Plan
    nextPath,     \* position of the copy loop in paths, 0 before the plan
    stderr,       \* the "Copied:" notifications written so far
    cerr,         \* error returned by CopyFiles
    cpc,          \* position of CopyFiles
    calls,        \* the tree below destDir at the start of each call so far
    \* ---- Confirm (selector.go) ----
    confirmModel, \* the confirmModel held by the event loop
    retConfirm,   \* bool returned by Confirm
    \* ---- wt add (main.go, hooks.go) ----
    hooks,        \* cfg.PostHooks
    addTmux,      \* the --tmux flag
    addPrintPath, \* the --print-path flag
    apc,          \* position of runAdd
    hookIdx,      \* hooks the loop of hooks.Run has passed
    hookLog,      \* what hooks.Run did, in order
    tmux,         \* what openTmuxPane did
    stdout,       \* lines runAdd and hooks.Run wrote to standard output
    addErr,       \* error returned by runAdd
    \* ---- wt cd, wt rm (main.go, worktree.go) ----
    cmdName,      \* the command: "cd" or "rm"
    gitOutput,    \* lines of `git worktree list --porcelain`, or "fail"
    args,         \* the positional arguments of wt rm
    removeForce,  \* the --force flag of wt rm
    cdTmux,       \* the --tmux flag of wt cd
    cdPrintPath,  \* the --print-path flag of wt cd
    wpc,          \* position of runCd / runRemove
    rmQueue,      \* the paths runRemove removes, in order
    rmIdx,        \* paths the loop of runRemove has passed
    gitCalls,     \* the git.RemoveWorktree calls made, in order
    cmdOut,       \* lines runCd / runRemove wrote to standard output
    pane,         \* the path openTmuxPane was called with
    cmdErr        \* error returned by runCd / runRemove

selVars == <<items, multiSelect, filtered, cursor, selected, query, quitting,
             checked, cancelled, quitSent, phase, tty, err, retValue,
             retValues, lastKey, termKey, atConfirm>>

copyVars == <<patterns, srcDir, destDir, matches, paths, nextPath, stderr,
              cerr, cpc, calls>>

promptVars == <<confirmModel, retConfirm>>

addVars == <<hooks, addTmux, addPrintPath, apc, hookIdx, hookLog, tmux,
             stdout, addErr>>

cmdVars == <<cmdName, gitOutput, args, removeForce, cdTmux, cdPrintPath, wpc,
             rmQueue, rmIdx, gitCalls, cmdOut, pane, cmdErr>>

----------------------------------------------------------------------------
(* Bounds of the model.                                                    *)

MaxItems == 2      \* longest backing list
MaxQuery == 2      \* longest query typed into the text input
LongLen == 56      \* length of the long label
MaxPatterns == 2   \* longest pattern list
MaxSymlinkHops == 2 \* symlinks followed while one path is resolved
MaxCalls == 2      \* CopyFiles calls with the same arguments
MaxHooks == 2      \* longest list of post-creation hooks

----------------------------------------------------------------------------
(* Generic helpers.                                                        *)

Max(a, b) == IF a > b THEN a ELSE b

Min(a, b) == IF a < b THEN a ELSE b

Range(s) == {s[i] : i \in 1..Len(s)}

SeqsUpTo(S, n) == UNION {[1..k -> S] : k \in 0..n}

\* the error CopyFiles returns: nil, or fmt.Errorf("<msg> %q: %w", subject,
\* cause)
NoError == [msg |-> "nil", subject |-> <<>>, cause |-> "nil"]

----------------------------------------------------------------------------
(* Characters.  "é" stands for the non-ASCII letters: two bytes in UTF-8,  *)
(* lower case, folded to "e" by fzf's rune normalisation.                  *)

\* unicode.ToLower on one rune (strings.ToLower, and fzf's folding of text)
ToLowerRune(c) ==
    CASE c = "A" -> "a"
      [] c = "B" -> "b"
      [] OTHER -> c

\* strings.ToLower
ToLower(s) == [i \in 1..Len(s) |-> ToLowerRune(s[i])]

\* fzf algo.normalizeRune: strips diacritics of non-ASCII letters
normalizeRune(c) == IF c = "é" THEN "e" ELSE c

IsAscii(c) == c # "é"


----------------------------------------------------------------------------
(* The fuzzy matcher called by filterItems: algo.FuzzyMatchV2 of           *)
(* github.com/junegunn/fzf, called with caseSensitive = false,             *)
(* normalize = true, forward = true, withPos = true and the model's slab.  *)
(* The pattern is compared as given; only the text is folded.              *)

scoreMatch == 16
scoreGapStart == 0 - 3
scoreGapExtension == 0 - 1
bonusBoundary == 8
bonusNonWord == 8
bonusCamel123 == 7
bonusConsecutive == 4
bonusFirstCharMultiplier == 2
bonusBoundaryWhite == 10
bonusBoundaryDelimiter == 9

\* util.MakeSlab(100, 2048): capacity of slab.I16
SlabI16 == 100

\* algo.charClassOf
charClassOf(c) ==
    CASE c \in {"a", "b", "e", "x", "é"} -> "lower"
      [] c \in {"A", "B"} -> "upper"
      [] c \in {"/", ",", ":", ";", "|"} -> "delimiter"
      [] c = " " -> "white"
      [] OTHER -> "nonword"

\* algo.bonusFor (the entries of bonusMatrix)
bonusFor(prevClass, class) ==
    IF class \in {"delimiter", "lower", "upper", "letter", "number"}
          /\ prevClass \in {"white", "delimiter", "nonword"}
    THEN CASE prevClass = "white" -> bonusBoundaryWhite
           [] prevClass = "delimiter" -> bonusBoundaryDelimiter
           [] OTHER -> bonusBoundary
    ELSE IF (prevClass = "lower" /\ class = "upper")
               \/ (prevClass # "number" /\ class = "number")
    THEN bonusCamel123
    ELSE CASE class \in {"nonword", "delimiter"} -> bonusNonWord
           [] class = "white" -> bonusBoundaryWhite
           [] OTHER -> 0

\* a text rune as the matcher compares it: lower-cased, then normalised
Fold(c) == normalizeRune(ToLowerRune(c))

NoMatch == [Score |-> 0, positions |-> <<>>]

\* FuzzyMatchV1, forward scan: <<sidx, eidx>>, eidx = -1 when no match
RECURSIVE V1Forward(_, _, _, _, _)
V1Forward(text, pattern, index, pidx, sidx) ==
    IF index >= Len(text) THEN <<sidx, 0 - 1>>
    ELSE IF Fold(text[index + 1]) = pattern[pidx + 1]
    THEN LET s == IF sidx < 0 THEN index ELSE sidx
         IN  IF pidx + 1 = Len(pattern) THEN <<s, index + 1>>
             ELSE V1Forward(text, pattern, index + 1, pidx + 1, s)
    ELSE V1Forward(text, pattern, index + 1, pidx, sidx)

\* FuzzyMatchV1, backward scan from eidx - 1: the tightened sidx
RECURSIVE V1Backward(_, _, _, _, _)
V1Backward(text, pattern, index, pidx, sidx) ==
    IF index < sidx THEN sidx
    ELSE IF Fold(text[index + 1]) = pattern[pidx + 1]
    THEN IF pidx - 1 < 0 THEN index
         ELSE V1Backward(text, pattern, index - 1, pidx - 1, sidx)
    ELSE V1Backward(text, pattern, index - 1, pidx, sidx)

\* algo.calculateScore: one pass over text[sidx, eidx); st holds the loop
\* variables, st.idx the loop index
RECURSIVE calculateScoreFrom(_, _, _, _)
calculateScoreFrom(text, pattern, eidx, st) ==
    IF st.idx >= eidx THEN [Score |-> st.score, positions |-> st.pos]
    ELSE
      LET char == text[st.idx + 1]
          class == charClassOf(char)
          bonus0 == bonusFor(st.prevClass, class)
          firstBonus1 == IF st.consecutive = 0 THEN bonus0
                         ELSE IF bonus0 >= bonusBoundary /\ bonus0 > st.firstBonus
                              THEN bonus0 ELSE st.firstBonus
          bonus == IF st.consecutive = 0 THEN bonus0
                   ELSE Max(Max(bonus0, firstBonus1), bonusConsecutive)
      IN  IF Fold(char) = pattern[st.pidx + 1]
          THEN calculateScoreFrom(text, pattern, eidx,
                 [idx |-> st.idx + 1,
                  pidx |-> st.pidx + 1,
                  score |-> st.score + scoreMatch +
                            (IF st.pidx = 0
                             THEN bonus * bonusFirstCharMultiplier ELSE bonus),
                  inGap |-> FALSE,
                  consecutive |-> st.consecutive + 1,
                  firstBonus |-> firstBonus1,
                  prevClass |-> class,
                  pos |-> Append(st.pos, st.idx)])
          ELSE calculateScoreFrom(text, pattern, eidx,
                 [idx |-> st.idx + 1,
                  pidx |-> st.pidx,
                  score |-> st.score +
                            (IF st.inGap THEN scoreGapExtension ELSE scoreGapStart),
                  inGap |-> TRUE,
                  consecutive |-> 0,
                  firstBonus |-> 0,
                  prevClass |-> class,
                  pos |-> st.pos])

calculateScore(text, pattern, sidx, eidx) ==
    calculateScoreFrom(text, pattern, eidx,
        [idx |-> sidx, pidx |-> 0, score |-> 0, inGap |-> FALSE,
         consecutive |-> 0, firstBonus |-> 0,
         prevClass |-> IF sidx > 0 THEN charClassOf(text[sidx]) ELSE "white",
         pos |-> <<>>])

\* FuzzyMatchV1 after the forward scan returned fw = <<sidx, eidx>>
V1AfterForward(text, pattern, fw) ==
    IF fw[1] >= 0 /\ fw[2] >= 0
    THEN calculateScore(text, pattern,
                        V1Backward(text, pattern, fw[2] - 1,
                                   Len(pattern) - 1, fw[1]),
                        fw[2])
    ELSE NoMatch

\* algo.FuzzyMatchV1: the greedy matcher; its score is not clamped at 0
FuzzyMatchV1(text, pattern) ==
    IF Len(pattern) = 0 THEN NoMatch
    ELSE V1AfterForward(text, pattern, V1Forward(text, pattern, 0, 0, 0 - 1))

\* FuzzyMatchV2, phase 2: bonus of every point (B), first occurrence of
\* every pattern rune (F), first row of the score matrix (H0, C0)
RECURSIVE V2Phase2(_, _, _)
V2Phase2(text, pattern, st) ==
    IF st.off >= Len(text) THEN st
    ELSE
      LET M == Len(pattern)
          off == st.off
          class == charClassOf(text[off + 1])
          char == Fold(text[off + 1])
          bonus == bonusFor(st.prevClass, class)
          hit == char = pattern[Min(st.pidx, M - 1) + 1]
          first == char = pattern[1]
          score == scoreMatch + bonus * bonusFirstCharMultiplier
          h0 == IF first THEN score
                ELSE Max(st.prevH0 + (IF st.inGap THEN scoreGapExtension
                                      ELSE scoreGapStart), 0)
          better == first /\ M = 1 /\ score > st.maxScore
          st1 == [off |-> off + 1,
                  pidx |-> IF hit /\ st.pidx < M THEN st.pidx + 1 ELSE st.pidx,
                  F |-> IF hit /\ st.pidx < M THEN Append(st.F, off) ELSE st.F,
                  lastIdx |-> IF hit THEN off ELSE st.lastIdx,
                  T |-> Append(st.T, char),
                  B |-> Append(st.B, bonus),
                  H0 |-> Append(st.H0, h0),
                  C0 |-> Append(st.C0, IF first THEN 1 ELSE 0),
                  prevH0 |-> h0,
                  prevClass |-> class,
                  inGap |-> ~first,
                  maxScore |-> IF better THEN score ELSE st.maxScore,
                  maxScorePos |-> IF better THEN off ELSE st.maxScorePos]
      IN  IF better /\ bonus >= bonusBoundary THEN st1
          ELSE V2Phase2(text, pattern, st1)

\* FuzzyMatchV2, phase 3: row pidx of the flat matrices H and C, from
\* column F[pidx] to column lastIdx
RECURSIVE V2Row(_, _, _, _)
V2Row(p2, pattern, pidx, st) ==
    IF st.col > p2.lastIdx THEN st
    ELSE
      LET f0 == p2.F[1]
          col == st.col
          width == p2.lastIdx - f0 + 1
          k == pidx * width + col - f0
          s2 == st.H[k] + (IF st.inGap THEN scoreGapExtension ELSE scoreGapStart)
          isMatch == pattern[pidx + 1] = p2.T[col + 1]
          b0 == p2.B[col + 1]
          cons0 == st.C[k - width] + 1
          fb == p2.B[col - cons0 + 2]
          brk == cons0 > 1 /\ b0 >= bonusBoundary /\ b0 > fb
          b1 == IF cons0 > 1 /\ ~brk
                THEN Max(b0, Max(bonusConsecutive, fb)) ELSE b0
          s1base == st.H[k - width] + scoreMatch
          lower == s1base + b1 < s2
          s1 == IF isMatch THEN (IF lower THEN s1base + b0 ELSE s1base + b1)
                ELSE 0
          consecutive == IF isMatch /\ ~lower
                         THEN (IF brk THEN 1 ELSE cons0) ELSE 0
          score == Max(Max(s1, s2), 0)
          better == pidx = Len(pattern) - 1 /\ score > st.maxScore
      IN  V2Row(p2, pattern, pidx,
                [col |-> col + 1,
                 inGap |-> s1 < s2,
                 H |-> [st.H EXCEPT ![k + 1] = score],
                 C |-> [st.C EXCEPT ![k + 1] = consecutive],
                 maxScore |-> IF better THEN score ELSE st.maxScore,
                 maxScorePos |-> IF better THEN col ELSE st.maxScorePos])

RECURSIVE V2Rows(_, _, _, _)
V2Rows(p2, pattern, pidx, st) ==
    IF pidx >= Len(pattern) THEN st
    ELSE
      LET f == p2.F[pidx + 1]
          width == p2.lastIdx - p2.F[1] + 1
          left == pidx * width + f - p2.F[1] - 1
      IN  V2Rows(p2, pattern, pidx + 1,
                 V2Row(p2, pattern, pidx,
                       [st EXCEPT !.col = f, !.inGap = FALSE,
                                  !.H = [st.H EXCEPT ![left + 1] = 0]]))

\* FuzzyMatchV2, phase 4: backtrace from (M - 1, maxScorePos) for the matched
\* positions, appended from the last one to the first
RECURSIVE V2Backtrace(_, _, _, _, _, _)
V2Backtrace(p2, m, i, j, preferMatch, pos) ==
    LET f0 == p2.F[1]
        width == p2.lastIdx - f0 + 1
        k == i * width + j - f0
        s == m.H[k + 1]
        s1 == IF i > 0 /\ j >= p2.F[i + 1] THEN m.H[k - width] ELSE 0
        s2 == IF j > p2.F[i + 1] THEN m.H[k] ELSE 0
        take == s > s1 /\ (s > s2 \/ (s = s2 /\ preferMatch))
        pos1 == IF take THEN Append(pos, j) ELSE pos
        nk == k + width + 1
        pm == m.C[k + 1] > 1 \/ (nk < Len(m.C) /\ m.C[nk + 1] > 0)
    IN  IF take /\ i = 0 THEN pos1
        ELSE V2Backtrace(p2, m, IF take THEN i - 1 ELSE i, j - 1, pm, pos1)

\* FuzzyMatchV2, phase 4: the score and the positions read off the filled
\* matrices m
V2Result(p2, pattern, m) ==
    [Score |-> m.maxScore,
     positions |-> V2Backtrace(p2, m, Len(pattern) - 1, m.maxScorePos,
                               TRUE, <<>>)]

\* FuzzyMatchV2, phase 3: the matrices H and C, width columns a row, the
\* first row copied from H0 and C0
V2Fill(p2, pattern, f0, width) ==
    V2Rows(p2, pattern, 1,
           [H |-> [k \in 1..(width * Len(pattern)) |->
                     IF k <= width THEN p2.H0[f0 + k] ELSE 0],
            C |-> [k \in 1..(width * Len(pattern)) |->
                     IF k <= width THEN p2.C0[f0 + k] ELSE 0],
            col |-> 0, inGap |-> FALSE,
            maxScore |-> 0, maxScorePos |-> 0])

\* FuzzyMatchV2 after phase 2 has filled p2
V2AfterPhase2(pattern, p2) ==
    IF p2.pidx # Len(pattern) THEN NoMatch
    ELSE IF Len(pattern) = 1
    THEN [Score |-> p2.maxScore, positions |-> <<p2.maxScorePos>>]
    ELSE V2Result(p2, pattern,
                  V2Fill(p2, pattern, p2.F[1], p2.lastIdx - p2.F[1] + 1))

\* algo.FuzzyMatchV2 as filterItems calls it: Score > 0 and the matched
\* positions, or Score <= 0 when the matcher rejects the text
FuzzyMatchV2(text, pattern) ==
    IF Len(pattern) = 0 THEN NoMatch
    ELSE IF Len(pattern) > Len(text) THEN NoMatch
    ELSE IF Len(text) * Len(pattern) > SlabI16 THEN FuzzyMatchV1(text, pattern)
    ELSE V2AfterPhase2(pattern,
           V2Phase2(text, pattern,
             [off |-> 0, pidx |-> 0, F |-> <<>>, lastIdx |-> 0, T |-> <<>>,
              B |-> <<>>, H0 |-> <<>>, C0 |-> <<>>, prevH0 |-> 0,
              prevClass |-> "white", inGap |-> FALSE,
              maxScore |-> 0, maxScorePos |-> 0]))

----------------------------------------------------------------------------
(* The selector model: newSelectorModel, filterItems, Update.              *)

\* the label that makes len(label) * len(query) exceed the slab for a
\* two-rune query: "a", then "x" repeated, then "b"
LongLabel ==
    [i \in 1..LongLen |-> IF i = 1 THEN "a" ELSE IF i = LongLen THEN "b" ELSE "x"]

\* the items a backing list is drawn from (tui.Item); two share a value
CandidateItems ==
    { [Label |-> <<"a", "b">>, Value |-> "v1"],
      [Label |-> <<"B", "a">>, Value |-> "v2"],
      [Label |-> <<"é", "a">>, Value |-> "v1"],
      [Label |-> LongLabel, Value |-> "v3"] }

\* the runes the keyboard can type into the text input
TypedRunes == {"a", "B", "é"}

\* the labels wt cd and wt rm give the worktrees of the listings below
CmdLabels ==
    { <<"a", "b">>, <<"a">>,
      <<"a", "b", " ", "(", "/", "b", ")">>, <<"/", "B", "/", "a">> }

\* every result of the matcher the session can ask for, computed once:
\* matchResult[label, pattern] = FuzzyMatchV2(label, pattern)
matchResult ==
    [text \in {c.Label : c \in CandidateItems} \cup CmdLabels,
     pattern \in {ToLower(q) : q \in SeqsUpTo(TypedRunes, MaxQuery)} |->
        FuzzyMatchV2(text, pattern)]

\* unfiltered with origIndex counted from 1
unfiltered_fromOne(its) ==
    [i \in 1..Len(its) |->
        [item |-> its[i], score |-> 0, positions |-> <<>>, origIndex |-> i]]

\* the view newSelectorModel and the empty-query branch of filterItems
\* build: every item, score 0, no positions, origIndex = its position
unfiltered(its) ==
    [i \in 1..Len(its) |->
        [item |-> its[i], score |-> 0, positions |-> <<>>, origIndex |-> i - 1]]

\* filterItems: what one matcher result appends to the scored slice
scoredEntry(item, result, i) ==
    IF result.Score > 0
    THEN <<[item |-> item, score |-> result.Score,
            positions |-> result.positions, origIndex |-> i]>>
    ELSE <<>>

\* the scoring loop of filterItems, from backing index i on
RECURSIVE scoreItems(_, _, _)
scoreItems(its, patternRunes, i) ==
    IF i >= Len(its) THEN <<>>
    ELSE scoredEntry(its[i + 1], matchResult[its[i + 1].Label, patternRunes], i)
             \o scoreItems(its, patternRunes, i + 1)

\* the comparison that puts the lower score first
scoreLess_ascending(x, y) == x.score < y.score

\* the comparison handed to sort.Slice
scoreLess(x, y) == x.score > y.score

\* sort.Slice on fewer than 12 elements is an insertion sort: element i
\* moves left while it is less than its left neighbour
RECURSIVE sinkLeft(_, _)
sinkLeft(sq, j) ==
    IF j > 1 /\ scoreLess(sq[j], sq[j - 1])
    THEN sinkLeft([sq EXCEPT ![j] = sq[j - 1], ![j - 1] = sq[j]], j - 1)
    ELSE sq

RECURSIVE sortSliceFrom(_, _)
sortSliceFrom(sq, i) ==
    IF i > Len(sq) THEN sq ELSE sortSliceFrom(sinkLeft(sq, i), i + 1)

sortSlice(sq) == sortSliceFrom(sq, 2)

\* the clamp without max(0, ...)
clampCursor_noFloor(cur, n) == IF cur >= n THEN n - 1 ELSE cur

\* filterItems: the cursor clamped into a view of n rows
clampCursor(cur, n) == IF cur >= n THEN Max(0, n - 1) ELSE cur

\* filterItems that also drops the check mark of every item it hides
filterItems_uncheckHidden(its, q, cur, chk, scored) ==
    IF q = <<>>
    THEN [filtered |-> unfiltered(its), cursor |-> 0, checked |-> chk]
    ELSE [filtered |-> scored,
          cursor |-> clampCursor(cur, Len(scored)),
          checked |-> [i \in DOMAIN chk |->
                         chk[i] /\ \E k \in 1..Len(scored) : scored[k].origIndex = i]]

\* filterItems that puts the cursor on the first entry for every query
filterItems_resetsCursor(its, q, cur, chk, scored) ==
    IF q = <<>>
    THEN [filtered |-> unfiltered(its), cursor |-> 0, checked |-> chk]
    ELSE [filtered |-> scored, cursor |-> 0, checked |-> chk]

\* selectorModel.filterItems: the fields it leaves in the model; scored is
\* the sorted result of the scoring loop for a non-empty query
filterItems(its, q, cur, chk, scored) ==
    IF q = <<>>
    THEN [filtered |-> unfiltered(its), cursor |-> 0, checked |-> chk]
    ELSE [filtered |-> scored,
          cursor |-> clampCursor(cur, Len(scored)),
          checked |-> chk]

\* textinput.Model.Update: the value after a key message
textInputUpdate(q, key, r) ==
    CASE key = "rune" -> Append(q, r)
      [] key = "backspace" -> IF q = <<>> THEN q ELSE SubSeq(q, 1, Len(q) - 1)
      [] OTHER -> q

\* the loop of MultiSelect over result.items, from backing index i on
RECURSIVE checkedValuesFrom(_, _, _)
checkedValuesFrom(its, chk, i) ==
    IF i >= Len(its) THEN <<>>
    ELSE (IF chk[i] THEN <<its[i + 1].Value>> ELSE <<>>)
             \o checkedValuesFrom(its, chk, i + 1)

\* MultiSelect that forgets to look at the cancelled flag
multiSelectResult_ignoreCancel(its, chk, flt, cur, canc) ==
    checkedValuesFrom(its, chk, 0)

\* the values MultiSelect returns for the final model
multiSelectResult(its, chk, flt, cur, canc) ==
    IF canc THEN <<>> ELSE checkedValuesFrom(its, chk, 0)

\* the value Select returns for the final model
selectResult(sel, canc) == IF canc THEN "" ELSE sel

----------------------------------------------------------------------------
(* The session: Select / MultiSelect around the bubbletea event loop.      *)
(* Update returns tea.Quit as a command; the loop stops when the QuitMsg   *)
(* that command produces is received, and key messages read before that    *)
(* are still handed to Update.                                             *)

modelVars == <<filtered, cursor, selected, query, quitting, checked, cancelled>>

retVars == <<phase, tty, err, retValue, retValues>>

histVars == <<lastKey, termKey, atConfirm>>

\* newConfirmModel: the prompt starts on No
newConfirmModel == [selected |-> FALSE, quitting |-> FALSE, result |-> FALSE]

\* no confirm prompt has run
PromptIdle ==
    /\ confirmModel = newConfirmModel
    /\ retConfirm = FALSE

\* no wt cd and no wt rm has run
CmdIdle ==
    /\ cmdName = "none"
    /\ gitOutput = <<>>
    /\ args = <<>>
    /\ removeForce = FALSE
    /\ cdTmux = FALSE
    /\ cdPrintPath = FALSE
    /\ wpc = "idle"
    /\ rmQueue = <<>>
    /\ rmIdx = 0
    /\ gitCalls = <<>>
    /\ cmdOut = <<>>
    /\ pane = ""
    /\ cmdErr = "nil"

\* no wt add has run
AddIdle ==
    /\ hooks = <<>>
    /\ addTmux = FALSE
    /\ addPrintPath = FALSE
    /\ apc = "idle"
    /\ hookIdx = 0
    /\ hookLog = <<>>
    /\ tmux = "none"
    /\ stdout = <<>>
    /\ addErr = "nil"

valueAtCursor == IF Len(filtered) > 0 THEN filtered[cursor + 1].item.Value ELSE ""

Init ==
    /\ items \in SeqsUpTo(CandidateItems, MaxItems)
    /\ multiSelect \in BOOLEAN
    /\ filtered = <<>>
    /\ cursor = 0
    /\ selected = ""
    /\ query = <<>>
    /\ quitting = FALSE
    /\ checked = [i \in 0..(Len(items) - 1) |-> FALSE]
    /\ cancelled = FALSE
    /\ quitSent = FALSE
    /\ phase \in {"called", "confirmCalled"}
    /\ (phase = "confirmCalled") => (items = <<>> /\ ~multiSelect)
    /\ tty = "unopened"
    /\ err = "nil"
    /\ retValue = ""
    /\ retValues = <<>>
    /\ lastKey = "none"
    /\ termKey = "none"
    /\ atConfirm = ""
    /\ PromptIdle
    /\ AddIdle
    /\ CmdIdle
    /\ patterns = <<>>
    /\ srcDir = <<>>
    /\ destDir = <<>>
    /\ matches = {}
    /\ paths = <<>>
    /\ nextPath = 0
    /\ stderr = <<>>
    /\ cerr = NoError
    /\ cpc = "idle"
    /\ calls = <<>>

\* Select / MultiSelect that look at len(items) after they have opened the
\* tty
RejectEmpty_afterOpen ==
    /\ phase = "called"
    /\ Len(items) = 0
    /\ phase' = "returned"
    /\ tty' = "closed"
    /\ err' = "no items to select"
    /\ UNCHANGED <<copyVars, promptVars, addVars, cmdVars>>
    /\ UNCHANGED <<items, multiSelect, modelVars, quitSent, retValue,
                   retValues, histVars>>

\* Select / MultiSelect: len(items) == 0
RejectEmpty ==
    /\ phase = "called"
    /\ Len(items) = 0
    /\ phase' = "returned"
    /\ err' = "no items to select"
    /\ UNCHANGED <<copyVars, promptVars, addVars, cmdVars>>
    /\ UNCHANGED <<items, multiSelect, modelVars, quitSent, tty, retValue,
                   retValues, histVars>>

\* Select / MultiSelect: os.OpenFile("/dev/tty") fails
OpenTtyFails ==
    /\ phase = "called"
    /\ Len(items) > 0
    /\ phase' = "returned"
    /\ err' = "failed to open /dev/tty"
    /\ UNCHANGED <<copyVars, promptVars, addVars, cmdVars>>
    /\ UNCHANGED <<items, multiSelect, modelVars, quitSent, tty, retValue,
                   retValues, histVars>>

\* Select / MultiSelect: the tty is open, newSelectorModel, p.Run() starts
StartSession ==
    /\ phase = "called"
    /\ Len(items) > 0
    /\ tty' = "open"
    /\ filtered' = unfiltered(items)
    /\ cursor' = 0
    /\ selected' = ""
    /\ query' = <<>>
    /\ quitting' = FALSE
    /\ checked' = [i \in 0..(Len(items) - 1) |-> FALSE]
    /\ cancelled' = FALSE
    /\ phase' = "running"
    /\ UNCHANGED <<copyVars, promptVars, addVars, cmdVars>>
    /\ UNCHANGED <<items, multiSelect, quitSent, err, retValue, retValues,
                   histVars>>

\* what every key handled by Update records
Handled(key) ==
    /\ phase = "running"
    /\ UNCHANGED <<items, multiSelect, retVars, copyVars, promptVars, addVars, cmdVars>>

\* Update: case "ctrl+c", "esc"
KeyCancel ==
    /\ Handled("cancel")
    /\ lastKey' = "cancel"
    /\ quitting' = TRUE
    /\ cancelled' = TRUE
    /\ quitSent' = TRUE
    /\ termKey' = IF termKey = "none" THEN "cancel" ELSE termKey
    /\ UNCHANGED <<filtered, cursor, selected, query, checked, atConfirm>>

\* Update: case "enter"
KeyEnter ==
    /\ Handled("enter")
    /\ lastKey' = "enter"
    /\ selected' = IF Len(filtered) > 0 /\ ~multiSelect
                   THEN filtered[cursor + 1].item.Value ELSE selected
    /\ quitting' = TRUE
    /\ quitSent' = TRUE
    /\ termKey' = IF termKey = "none" THEN "enter" ELSE termKey
    /\ atConfirm' = IF termKey = "none" THEN valueAtCursor ELSE atConfirm
    /\ UNCHANGED <<filtered, cursor, query, checked, cancelled>>

\* Update: case "up", "ctrl+p"
KeyUp ==
    /\ Handled("up")
    /\ lastKey' = "up"
    /\ cursor' = IF cursor > 0 THEN cursor - 1 ELSE cursor
    /\ UNCHANGED <<filtered, selected, query, quitting, checked, cancelled,
                   quitSent, termKey, atConfirm>>

\* Update: case "down", "ctrl+n"
KeyDown ==
    /\ Handled("down")
    /\ lastKey' = "down"
    /\ cursor' = IF cursor < Len(filtered) - 1 THEN cursor + 1 ELSE cursor
    /\ UNCHANGED <<filtered, selected, query, quitting, checked, cancelled,
                   quitSent, termKey, atConfirm>>

\* Update whose toggle is keyed by the position in the ranked view
KeyTab_byViewPosition ==
    /\ Handled("tab")
    /\ lastKey' = "tab"
    /\ IF multiSelect /\ Len(filtered) > 0
       THEN /\ checked' = [checked EXCEPT ![cursor] = ~checked[cursor]]
            /\ cursor' = IF cursor < Len(filtered) - 1 THEN cursor + 1
                         ELSE cursor
       ELSE UNCHANGED <<checked, cursor>>
    /\ UNCHANGED <<filtered, selected, query, quitting, cancelled, quitSent,
                   termKey, atConfirm>>

\* Update: case "tab"
KeyTab ==
    /\ Handled("tab")
    /\ lastKey' = "tab"
    /\ IF multiSelect /\ Len(filtered) > 0
       THEN LET idx == filtered[cursor + 1].origIndex
            IN  /\ checked' = [checked EXCEPT ![idx] = ~checked[idx]]
                /\ cursor' = IF cursor < Len(filtered) - 1 THEN cursor + 1
                             ELSE cursor
       ELSE UNCHANGED <<checked, cursor>>
    /\ UNCHANGED <<filtered, selected, query, quitting, cancelled, quitSent,
                   termKey, atConfirm>>

\* Update: default, the text input takes the key and filterItems runs
KeyDefault(key, r) ==
    /\ Handled(key)
    /\ \E q \in {textInputUpdate(query, key, r)} :
         /\ Len(q) <= MaxQuery
         /\ \E m \in {filterItems(items, q, cursor, checked,
                                   sortSlice(scoreItems(items, ToLower(q), 0)))} :
              /\ query' = q
              /\ lastKey' = IF q # query THEN "edit" ELSE key
              /\ filtered' = m.filtered
              /\ cursor' = m.cursor
              /\ checked' = m.checked
    /\ UNCHANGED <<selected, quitting, cancelled, quitSent, termKey, atConfirm>>

\* a printable key
KeyRune == \E r \in TypedRunes : KeyDefault("rune", r)

KeyBackspace == KeyDefault("backspace", "")

\* any other key of the default branch (left, right, home, ...): the text
\* input moves its own cursor, the value stays
KeyOther == KeyDefault("other", "")

\* Select / MultiSelect that return the error of p.Run() without closing
\* the tty
RunFails_noClose ==
    /\ phase = "running"
    /\ phase' = "returned"
    /\ err' = "run"
    /\ UNCHANGED <<copyVars, promptVars, addVars, cmdVars>>
    /\ UNCHANGED <<items, multiSelect, modelVars, quitSent, tty, retValue,
                   retValues, histVars>>

\* p.Run() returns an error (the input stream fails); deferred tty.Close()
RunFails ==
    /\ phase = "running"
    /\ phase' = "returned"
    /\ tty' = "closed"
    /\ err' = "run"
    /\ UNCHANGED <<copyVars, promptVars, addVars, cmdVars>>
    /\ UNCHANGED <<items, multiSelect, modelVars, quitSent, retValue,
                   retValues, histVars>>

\* the event loop receives QuitMsg: p.Run() returns the final model, and
\* Select / MultiSelect read the result from it; deferred tty.Close()
ProcessQuit ==
    /\ phase = "running"
    /\ quitSent
    /\ phase' = "returned"
    /\ tty' = "closed"
    /\ retValue' = IF multiSelect THEN "" ELSE selectResult(selected, cancelled)
    /\ retValues' = IF multiSelect
                    THEN multiSelectResult(items, checked, filtered, cursor,
                                           cancelled)
                    ELSE <<>>
    /\ UNCHANGED <<copyVars, promptVars, addVars, cmdVars>>
    /\ UNCHANGED <<items, multiSelect, modelVars, quitSent, err, histVars>>

----------------------------------------------------------------------------
(* Confirm around the same event loop.                                     *)

\* the keys a confirm prompt is sent; "tab" stands for every key Update
\* has no case for
ConfirmKeys ==
    {"ctrl+c", "esc", "enter", "left", "h", "right", "l", "y", "Y", "n", "N",
     "tab"}

\* confirmModel.Update whose confirm key always answers yes
confirmUpdate_enterAnswersYes(m, key) ==
    CASE key \in {"ctrl+c", "esc"} ->
           [m |-> [m EXCEPT !.quitting = TRUE, !.result = FALSE], quit |-> TRUE]
      [] key = "enter" ->
           [m |-> [m EXCEPT !.quitting = TRUE, !.result = TRUE], quit |-> TRUE]
      [] key \in {"left", "h"} ->
           [m |-> [m EXCEPT !.selected = TRUE], quit |-> FALSE]
      [] key \in {"right", "l"} ->
           [m |-> [m EXCEPT !.selected = FALSE], quit |-> FALSE]
      [] key \in {"y", "Y"} ->
           [m |-> [m EXCEPT !.quitting = TRUE, !.result = TRUE], quit |-> TRUE]
      [] key \in {"n", "N"} ->
           [m |-> [m EXCEPT !.quitting = TRUE, !.result = FALSE], quit |-> TRUE]
      [] OTHER -> [m |-> m, quit |-> FALSE]

\* confirmModel.Update on a key message: the model it returns, and whether
\* the command it returns is tea.Quit
confirmUpdate(m, key) ==
    CASE key \in {"ctrl+c", "esc"} ->
           [m |-> [m EXCEPT !.quitting = TRUE, !.result = FALSE], quit |-> TRUE]
      [] key = "enter" ->
           [m |-> [m EXCEPT !.quitting = TRUE, !.result = m.selected],
            quit |-> TRUE]
      [] key \in {"left", "h"} ->
           [m |-> [m EXCEPT !.selected = TRUE], quit |-> FALSE]
      [] key \in {"right", "l"} ->
           [m |-> [m EXCEPT !.selected = FALSE], quit |-> FALSE]
      [] key \in {"y", "Y"} ->
           [m |-> [m EXCEPT !.quitting = TRUE, !.result = TRUE], quit |-> TRUE]
      [] key \in {"n", "N"} ->
           [m |-> [m EXCEPT !.quitting = TRUE, !.result = FALSE], quit |-> TRUE]
      [] OTHER -> [m |-> m, quit |-> FALSE]

\* Confirm: os.OpenFile("/dev/tty") fails
ConfirmOpenTtyFails ==
    /\ phase = "confirmCalled"
    /\ phase' = "confirmReturned"
    /\ err' = "failed to open /dev/tty"
    /\ retConfirm' = FALSE
    /\ UNCHANGED <<items, multiSelect, modelVars, quitSent, tty, retValue,
                   retValues, histVars, confirmModel, copyVars, addVars, cmdVars>>

\* Confirm: the tty is open, newConfirmModel, p.Run() starts
ConfirmStart ==
    /\ phase = "confirmCalled"
    /\ tty' = "open"
    /\ confirmModel' = newConfirmModel
    /\ phase' = "confirming"
    /\ UNCHANGED <<items, multiSelect, modelVars, quitSent, err, retValue,
                   retValues, histVars, retConfirm, copyVars, addVars, cmdVars>>

\* the event loop hands one key message to confirmModel.Update
ConfirmKey ==
    /\ phase = "confirming"
    /\ \E key \in ConfirmKeys :
         \E u \in {confirmUpdate(confirmModel, key)} :
            /\ confirmModel' = u.m
            /\ quitSent' = (quitSent \/ u.quit)
            /\ lastKey' = key
            /\ termKey' = IF termKey = "none" /\ u.quit THEN key ELSE termKey
            /\ atConfirm' = IF termKey = "none" /\ key \in {"left", "h", "right", "l"}
                            THEN key ELSE atConfirm
    /\ UNCHANGED <<items, multiSelect, modelVars, retVars, retConfirm,
                   copyVars, addVars, cmdVars>>

\* p.Run() returns an error; deferred tty.Close()
ConfirmRunFails ==
    /\ phase = "confirming"
    /\ phase' = "confirmReturned"
    /\ tty' = "closed"
    /\ err' = "run"
    /\ retConfirm' = FALSE
    /\ UNCHANGED <<items, multiSelect, modelVars, quitSent, retValue,
                   retValues, histVars, confirmModel, copyVars, addVars, cmdVars>>

\* the event loop receives QuitMsg: p.Run() returns the final model and
\* Confirm returns its result; deferred tty.Close()
ConfirmProcessQuit ==
    /\ phase = "confirming"
    /\ quitSent
    /\ phase' = "confirmReturned"
    /\ tty' = "closed"
    /\ retConfirm' = confirmModel.result
    /\ UNCHANGED <<items, multiSelect, modelVars, quitSent, err, retValue,
                   retValues, histVars, confirmModel, copyVars, addVars, cmdVars>>

Next ==
    \/ ConfirmOpenTtyFails
    \/ ConfirmStart
    \/ ConfirmKey
    \/ ConfirmRunFails
    \/ ConfirmProcessQuit
    \/ RejectEmpty
    \/ OpenTtyFails
    \/ StartSession
    \/ KeyCancel
    \/ KeyEnter
    \/ KeyUp
    \/ KeyDown
    \/ KeyTab
    \/ KeyRune
    \/ KeyBackspace
    \/ KeyOther
    \/ RunFails
    \/ ProcessQuit

----------------------------------------------------------------------------
(* The file copier, internal/copy/copy.go.  A path or a pattern is a       *)
(* string, that is a sequence of characters.  A tree maps the paths of     *)
(* PathUniverse to nodes; the empty path is the root of the tree (srcDir   *)
(* or destDir themselves) and is always a directory.  Symlink targets are  *)
(* relative to the directory that holds the link.                          *)

Sep == <<"/">>

\* byte value of a character, for Go's string comparison
charRank(c) ==
    CASE c = " " -> 32
      [] c = "!" -> 33
      [] c = "*" -> 42
      [] c = "." -> 46
      [] c = "/" -> 47
      [] c = "?" -> 63
      [] c = "[" -> 91
      [] c = "a" -> 97
      [] c = "b" -> 98
      [] OTHER -> 127

\* s < t on Go strings, from index i on
RECURSIVE stringLessFrom(_, _, _)
stringLessFrom(s, t, i) ==
    IF i > Len(s) THEN i <= Len(t)
    ELSE IF i > Len(t) THEN FALSE
    ELSE IF s[i] = t[i] THEN stringLessFrom(s, t, i + 1)
    ELSE charRank(s[i]) < charRank(t[i])

stringLess(s, t) == stringLessFrom(s, t, 1)

\* strings.HasPrefix
HasPrefix(s, prefix) ==
    Len(prefix) <= Len(s) /\ SubSeq(s, 1, Len(prefix)) = prefix

\* strings.HasSuffix
HasSuffix(s, suffix) ==
    Len(suffix) <= Len(s) /\ SubSeq(s, Len(s) - Len(suffix) + 1, Len(s)) = suffix

\* strings.TrimPrefix
TrimPrefix(s, prefix) ==
    IF HasPrefix(s, prefix) THEN SubSeq(s, Len(prefix) + 1, Len(s)) ELSE s

\* strings.TrimSuffix
TrimSuffix(s, suffix) ==
    IF HasSuffix(s, suffix) THEN SubSeq(s, 1, Len(s) - Len(suffix)) ELSE s

RECURSIVE TrimLeft(_)
TrimLeft(s) == IF s # <<>> /\ s[1] = " " THEN TrimLeft(Tail(s)) ELSE s

RECURSIVE TrimRight(_)
TrimRight(s) ==
    IF s # <<>> /\ s[Len(s)] = " " THEN TrimRight(SubSeq(s, 1, Len(s) - 1)) ELSE s

\* strings.TrimSpace
TrimSpace(s) == TrimRight(TrimLeft(s))

\* strings.ContainsAny
ContainsAny(s, chars) == \E i \in 1..Len(s) : s[i] \in chars

\* strings.Split(s, "/"), from index i on; cur is the segment being read
RECURSIVE SplitFrom(_, _, _, _)
SplitFrom(s, i, cur, acc) ==
    IF i > Len(s) THEN Append(acc, cur)
    ELSE IF s[i] = "/" THEN SplitFrom(s, i + 1, <<>>, Append(acc, cur))
    ELSE SplitFrom(s, i + 1, Append(cur, s[i]), acc)

Split(s) == SplitFrom(s, 1, <<>>, <<>>)

\* strings.Join(segs, "/"), from segment i on
RECURSIVE JoinFrom(_, _)
JoinFrom(segs, i) ==
    IF i > Len(segs) THEN <<>>
    ELSE IF i = Len(segs) THEN segs[i]
    ELSE segs[i] \o Sep \o JoinFrom(segs, i + 1)

\* filepath.Clean, the pass over the segments: empty and "." segments go,
\* ".." takes back the segment before it
RECURSIVE cleanSegments(_, _, _, _)
cleanSegments(segs, i, rooted, out) ==
    IF i > Len(segs) THEN out
    ELSE IF segs[i] = <<>> \/ segs[i] = <<".">>
    THEN cleanSegments(segs, i + 1, rooted, out)
    ELSE IF segs[i] = <<".", ".">>
    THEN cleanSegments(segs, i + 1, rooted,
             IF out # <<>> /\ out[Len(out)] # <<".", ".">>
             THEN SubSeq(out, 1, Len(out) - 1)
             ELSE IF rooted THEN out ELSE Append(out, segs[i]))
    ELSE cleanSegments(segs, i + 1, rooted, Append(out, segs[i]))

cleanJoined(rooted, joined) ==
    IF rooted THEN Sep \o joined
    ELSE IF joined = <<>> THEN <<".">> ELSE joined

\* filepath.Clean / path.Clean
Clean(p) ==
    IF p = <<>> THEN <<".">>
    ELSE cleanJoined(p[1] = "/",
                     JoinFrom(cleanSegments(Split(p), 1, p[1] = "/", <<>>), 1))

cleanNonEmpty(p) == IF p = <<>> THEN <<>> ELSE Clean(p)

\* normalizeRelPath
normalizeRelPath(p) ==
    cleanNonEmpty(TrimSuffix(TrimSuffix(TrimSpace(p), Sep), Sep))

\* path.Join(dir, name)
pathJoin(dir, name) == Clean(dir \o Sep \o name)

\* filepath.Dir of a cleaned relative path; the root is its own parent here
pathDir(p) ==
    IF Len(Split(p)) <= 1 THEN <<".">>
    ELSE JoinFrom(SubSeq(Split(p), 1, Len(Split(p)) - 1), 1)

\* filepath.Base
baseName(p) == Split(p)[Len(Split(p))]

----------------------------------------------------------------------------
(* The file system.                                                        *)

None == [kind |-> "none", data |-> <<>>]

Dir == [kind |-> "dir", data |-> <<>>]

File(content) == [kind |-> "file", data |-> content]

Link(target) == [kind |-> "link", data |-> target]

\* canonical path of the directory that holds the root of a tree; the
\* directories above it go by the same path
Outside == <<".", ".">>

\* the node a tree holds at a canonical path; the root and the directory
\* that holds it are directories
nodeAt(tree, p) ==
    IF p = <<>> \/ p = Outside THEN Dir
    ELSE IF p \in DOMAIN tree THEN tree[p] ELSE None

\* canonical path of entry name in the directory with canonical path dir
child(dir, name) == IF dir = <<>> THEN name ELSE dir \o Sep \o name

\* canonical path of the directory that holds the entry with canonical path p
parentOf(p) ==
    IF Len(Split(p)) <= 1 THEN <<>>
    ELSE JoinFrom(SubSeq(Split(p), 1, Len(Split(p)) - 1), 1)

NotFound == [ok |-> FALSE, path |-> <<>>]

\* Path resolution as the kernel does it: from the directory cur, segment i
\* of segs on.  A symlink is followed when it is not the last segment, or
\* when followLast; hops bounds the symlinks followed (ELOOP).
RECURSIVE walk(_, _, _, _, _, _)
RECURSIVE walkEntry(_, _, _, _, _, _, _)
RECURSIVE walkLink(_, _, _, _, _, _)

walk(tree, cur, segs, i, followLast, hops) ==
    IF i > Len(segs) THEN [ok |-> TRUE, path |-> cur]
    ELSE IF nodeAt(tree, cur).kind # "dir" THEN NotFound
    ELSE IF segs[i] = <<>> \/ segs[i] = <<".">>
    THEN walk(tree, cur, segs, i + 1, followLast, hops)
    ELSE IF segs[i] = <<".", ".">>
    THEN IF cur = <<>> \/ cur = Outside
         THEN walk(tree, Outside, segs, i + 1, followLast, hops)
         ELSE walk(tree, parentOf(cur), segs, i + 1, followLast, hops)
    ELSE walkEntry(tree, cur, child(cur, segs[i]), segs, i, followLast, hops)

walkEntry(tree, cur, entry, segs, i, followLast, hops) ==
    IF nodeAt(tree, entry).kind = "none" THEN NotFound
    ELSE IF nodeAt(tree, entry).kind = "link" /\ (i < Len(segs) \/ followLast)
    THEN IF hops = 0 THEN NotFound
         ELSE walkLink(tree,
                       walk(tree, cur, Split(nodeAt(tree, entry).data), 1,
                            TRUE, hops - 1),
                       segs, i, followLast, hops - 1)
    ELSE walk(tree, entry, segs, i + 1, followLast, hops)

walkLink(tree, target, segs, i, followLast, hops) ==
    IF target.ok THEN walk(tree, target.path, segs, i + 1, followLast, hops)
    ELSE NotFound

\* os.Lstat(filepath.Join(base, p)): ok and the canonical path of the entry
Lstat(tree, p) == walk(tree, <<>>, Split(p), 1, FALSE, MaxSymlinkHops)

\* os.Stat(filepath.Join(base, p))
Stat(tree, p) == walk(tree, <<>>, Split(p), 1, TRUE, MaxSymlinkHops)

infoOf(tree, r) == IF r.ok THEN nodeAt(tree, r.path) ELSE None

lstatNode(tree, p) == infoOf(tree, Lstat(tree, p))

statNode(tree, p) == infoOf(tree, Stat(tree, p))

\* io/fs.ValidPath: what os.DirFS accepts as a name
ValidPath(name) ==
    \/ name = <<".">>
    \/ /\ name # <<>>
       /\ \A i \in 1..Len(Split(name)) :
              Split(name)[i] \notin {<<>>, <<".">>, <<".", ".">>}

\* fs.Stat(os.DirFS(base), name)
fsStatNode(tree, name) == IF ValidPath(name) THEN statNode(tree, name) ELSE None

\* the names fs.ReadDir(os.DirFS(base), dir) lists
ReadDir(tree, dir) ==
    IF fsStatNode(tree, dir).kind = "dir"
    THEN {baseName(q) : q \in {p \in DOMAIN tree :
                                  /\ tree[p].kind # "none"
                                  /\ parentOf(p) = Stat(tree, dir).path}}
    ELSE {}

----------------------------------------------------------------------------
(* doublestar.GlobWalk(os.DirFS(baseDir), pattern, fn) of                  *)
(* github.com/bmatcuk/doublestar/v4 with its default options: the set of   *)
(* paths it hands to fn.  The metacharacters of the model are * ? and **;  *)
(* "[" occurs only as an unclosed class.                                   *)

MetaChars == {"*", "?", "[", "{"}

\* doublestar.ValidatePattern
ValidatePattern(pattern) == ~ContainsAny(pattern, {"[", "{"})

\* first index of a character of chars in s, 0 when there is none
RECURSIVE indexAnyFrom(_, _, _)
indexAnyFrom(s, chars, i) ==
    IF i > Len(s) THEN 0
    ELSE IF s[i] \in chars THEN i
    ELSE indexAnyFrom(s, chars, i + 1)

\* last index of a character of chars in s at or before i, 0 when none
RECURSIVE lastIndexAnyFrom(_, _, _)
lastIndexAnyFrom(s, chars, i) ==
    IF i < 1 THEN 0
    ELSE IF s[i] \in chars THEN i
    ELSE lastIndexAnyFrom(s, chars, i - 1)

\* doublestar's match of one path segment against one pattern segment
RECURSIVE matchSegmentFrom(_, _, _, _)
matchSegmentFrom(pat, name, i, j) ==
    IF i > Len(pat) THEN j > Len(name)
    ELSE IF pat[i] = "*"
    THEN \/ matchSegmentFrom(pat, name, i + 1, j)
         \/ (j <= Len(name) /\ matchSegmentFrom(pat, name, i, j + 1))
    ELSE IF j > Len(name) THEN FALSE
    ELSE IF pat[i] = "?" THEN matchSegmentFrom(pat, name, i + 1, j + 1)
    ELSE pat[i] = name[j] /\ matchSegmentFrom(pat, name, i + 1, j + 1)

matchSegment(pat, name) == matchSegmentFrom(pat, name, 1, 1)

\* glob.isDir: a directory, or a symlink to one
isDir(tree, dir, name) == fsStatNode(tree, pathJoin(dir, name)).kind = "dir"

\* glob.globDoubleStarWalk: every directory below dir, and every other
\* entry when canMatchFiles
RECURSIVE globDoubleStarWalk(_, _, _)
globDoubleStarWalk(tree, dir, canMatchFiles) ==
    UNION { IF isDir(tree, dir, name)
            THEN {pathJoin(dir, name)}
                     \cup globDoubleStarWalk(tree, pathJoin(dir, name), canMatchFiles)
            ELSE IF canMatchFiles THEN {pathJoin(dir, name)} ELSE {}
            : name \in ReadDir(tree, dir) }

\* glob.globDirWalk: the entries of dir that match the last pattern segment
globDirWalk(tree, dir, pattern, canMatchFiles) ==
    IF pattern = <<>>
    THEN IF fsStatNode(tree, dir).kind = "dir" THEN {dir} ELSE {}
    ELSE IF pattern = <<"*", "*">>
    THEN IF fsStatNode(tree, dir).kind = "dir"
         THEN {dir} \cup globDoubleStarWalk(tree, dir, canMatchFiles)
         ELSE {}
    ELSE {pathJoin(dir, name) :
            name \in {n \in ReadDir(tree, dir) :
                        /\ matchSegment(pattern, n)
                        /\ (canMatchFiles \/ isDir(tree, dir, n))}}

\* glob.doGlobWalk: split the pattern at its last separator, walk the
\* directory part, then match the last segment in every directory found
RECURSIVE doGlobWalk(_, _, _)
RECURSIVE doGlobWalkSplit(_, _, _, _, _)

doGlobWalk(tree, pattern, firstSegment) ==
    IF indexAnyFrom(pattern, MetaChars, 1) = 0
    THEN IF fsStatNode(tree, pattern).kind # "none" THEN {pattern} ELSE {}
    ELSE doGlobWalkSplit(tree, pattern, firstSegment,
                         lastIndexAnyFrom(pattern, {"/"}, Len(pattern)),
                         indexAnyFrom(pattern, MetaChars, 1))

doGlobWalkSplit(tree, pattern, firstSegment, splitIdx, patternStart) ==
    IF splitIdx = 0
    THEN globDirWalk(tree, <<".">>, pattern, firstSegment)
    ELSE IF splitIdx <= patternStart
    THEN globDirWalk(tree, SubSeq(pattern, 1, splitIdx - 1),
                     SubSeq(pattern, splitIdx + 1, Len(pattern)), firstSegment)
    ELSE UNION { globDirWalk(tree, p,
                             SubSeq(pattern, splitIdx + 1, Len(pattern)),
                             firstSegment)
                 : p \in doGlobWalk(tree, SubSeq(pattern, 1, splitIdx - 1), FALSE) }

----------------------------------------------------------------------------
(* copy.go: findMatches, the match set, filterDescendants.                 *)

GlobChars == {"*", "?", "[", "]", "{", "}"}

\* the literal branch with os.Stat, which follows a symlink at the path
findLiteral_followsLinks(tree, rel) ==
    IF rel # <<>> /\ Stat(tree, rel).ok THEN {rel} ELSE {}

\* findMatches, literal branch: the normalised pattern when it exists
findLiteral(tree, rel) ==
    IF rel # <<>> /\ Lstat(tree, rel).ok THEN {rel} ELSE {}

\* findMatches over a matcher that finds nothing for a malformed pattern
\* instead of returning ErrBadPattern
findMatches_noPatternError(tree, pattern) ==
    IF ~ContainsAny(pattern, GlobChars)
    THEN [err |-> FALSE, found |-> findLiteral(tree, normalizeRelPath(pattern))]
    ELSE IF ~ValidatePattern(pattern)
    THEN [err |-> FALSE, found |-> {}]
    ELSE [err |-> FALSE,
          found |-> {normalizeRelPath(p) : p \in doGlobWalk(tree, pattern, TRUE)}
                        \ {<<>>}]

\* findMatches: an error flag and the set of paths returned
findMatches(tree, pattern) ==
    IF ~ContainsAny(pattern, GlobChars)
    THEN [err |-> FALSE, found |-> findLiteral(tree, normalizeRelPath(pattern))]
    ELSE IF ~ValidatePattern(pattern)
    THEN [err |-> TRUE, found |-> {}]
    ELSE [err |-> FALSE,
          found |-> {normalizeRelPath(p) : p \in doGlobWalk(tree, pattern, TRUE)}
                        \ {<<>>}]

isExclude(p) == HasPrefix(p, <<"!">>)

isInclude(p) == ~isExclude(p)

\* CopyFiles: the include patterns, in list order
includePatterns(pats) == SelectSeq(pats, isInclude)

\* CopyFiles: the exclude patterns without their "!", in list order
excludePatterns(pats) ==
    [i \in 1..Len(SelectSeq(pats, isExclude)) |->
        TrimPrefix(SelectSeq(pats, isExclude)[i], <<"!">>)]

\* CopyFiles: the loop over the include patterns, from pattern i on
RECURSIVE includeLoop(_, _, _, _)
includeLoop(tree, pats, i, m) ==
    IF i > Len(pats) THEN [err |-> "nil", pattern |-> <<>>, matches |-> m]
    ELSE IF findMatches(tree, pats[i]).err
    THEN [err |-> "error matching pattern", pattern |-> pats[i], matches |-> m]
    ELSE includeLoop(tree, pats, i + 1,
                     m \cup (findMatches(tree, pats[i]).found \ {<<>>}))

\* CopyFiles: the loop over the exclude patterns, from pattern i on
RECURSIVE excludeLoop(_, _, _, _)
excludeLoop(tree, pats, i, m) ==
    IF i > Len(pats) THEN [err |-> "nil", pattern |-> <<>>, matches |-> m]
    ELSE IF findMatches(tree, pats[i]).err
    THEN [err |-> "error matching exclude pattern", pattern |-> pats[i],
          matches |-> m]
    ELSE excludeLoop(tree, pats, i + 1, m \ findMatches(tree, pats[i]).found)

excludeAfter(tree, pats, inc) ==
    IF inc.err # "nil" THEN inc
    ELSE excludeLoop(tree, excludePatterns(pats), 1, inc.matches)

\* the patterns applied one by one in list order: an exclude pattern only
\* removes what the patterns before it matched
RECURSIVE resolveInListOrder(_, _, _, _)
resolveInListOrder(tree, pats, i, m) ==
    IF i > Len(pats) THEN [err |-> "nil", pattern |-> <<>>, matches |-> m]
    ELSE IF findMatches(tree, TrimPrefix(pats[i], <<"!">>)).err
    THEN [err |-> "error matching pattern", pattern |-> pats[i], matches |-> m]
    ELSE resolveInListOrder(tree, pats, i + 1,
             IF isExclude(pats[i])
             THEN m \ findMatches(tree, TrimPrefix(pats[i], <<"!">>)).found
             ELSE m \cup findMatches(tree, pats[i]).found)

resolveMatches_inListOrder(tree, pats) == resolveInListOrder(tree, pats, 1, {})

\* CopyFiles, lines 22-53: the match set, or the error of the first
\* pattern that cannot be matched
resolveMatches(tree, pats) ==
    excludeAfter(tree, pats, includeLoop(tree, includePatterns(pats), 1, {}))

\* the less function of filterDescendants: shorter first, then by bytes
pathLess(p, q) == IF Len(p) # Len(q) THEN Len(p) < Len(q) ELSE stringLess(p, q)

\* x put into the sequence sq, which is sorted by pathLess
insertByLength(sq, x) ==
    SubSeq(sq, 1, Cardinality({i \in 1..Len(sq) : ~pathLess(x, sq[i])}))
        \o <<x>>
        \o SubSeq(sq, Cardinality({i \in 1..Len(sq) : ~pathLess(x, sq[i])}) + 1,
                  Len(sq))

\* filterDescendants, lines 88-98: the normalised keys of the match set,
\* sorted by pathLess
RECURSIVE sortedPaths(_)
sortedPaths(m) ==
    IF m = {} THEN <<>>
    ELSE insertByLength(sortedPaths(m \ {CHOOSE p \in m : TRUE}),
                        normalizeRelPath(CHOOSE p \in m : TRUE))

\* a kept directory that holds p although its name is only a prefix of p's
isDescendantOf_noSeparator(p, dir) == HasPrefix(p, dir) /\ p # dir

\* filterDescendants, line 110
isDescendantOf(p, dir) == HasPrefix(p, dir \o Sep)

\* filterDescendants, lines 123-132: Lstat succeeds, no symlink, IsDir
isRealDir(tree, p) == lstatNode(tree, p).kind = "dir"

\* filterDescendants, the loop of lines 103-133 from path i on
RECURSIVE keepLoop(_, _, _, _, _)
keepLoop(tree, ps, i, kept, keptDirs) ==
    IF i > Len(ps) THEN kept
    ELSE IF ps[i] = <<>> \/ \E dir \in keptDirs : isDescendantOf(ps[i], dir)
    THEN keepLoop(tree, ps, i + 1, kept, keptDirs)
    ELSE keepLoop(tree, ps, i + 1, Append(kept, ps[i]),
                  IF isRealDir(tree, ps[i]) THEN keptDirs \cup {ps[i]}
                  ELSE keptDirs)

\* filterDescendants
filterDescendants(m, tree) == keepLoop(tree, sortedPaths(m), 1, <<>>, {})

\* x put into the sequence sq, which is sorted by stringLess
insertString(sq, x) ==
    SubSeq(sq, 1, Cardinality({i \in 1..Len(sq) : ~stringLess(x, sq[i])}))
        \o <<x>>
        \o SubSeq(sq, Cardinality({i \in 1..Len(sq) : ~stringLess(x, sq[i])}) + 1,
                  Len(sq))

\* sort.Strings, the first n elements of sq
RECURSIVE sortStringsUpTo(_, _)
sortStringsUpTo(sq, n) ==
    IF n = 0 THEN <<>> ELSE insertString(sortStringsUpTo(sq, n - 1), sq[n])

sortStrings(sq) == sortStringsUpTo(sq, Len(sq))

planOf(tree, res) ==
    IF res.err # "nil" THEN [err |-> res.err, paths |-> <<>>]
    ELSE [err |-> "nil", paths |-> sortStrings(filterDescendants(res.matches, tree))]

\* CopyFiles, lines 22-56: the Copy Plan of a pattern list
copyPlan(tree, pats) == planOf(tree, resolveMatches(tree, pats))

----------------------------------------------------------------------------
(* copy.go: copyPath, copyDir, mergeDirContents, copyFile.                 *)

\* one os.Mkdir of os.MkdirAll, after the parents were made
mkdirIn(parent, p) ==
    IF ~parent.ok THEN parent
    ELSE IF Lstat(parent.tree, p).ok THEN [ok |-> FALSE, tree |-> parent.tree]
    ELSE [ok |-> TRUE,
          tree |-> [parent.tree EXCEPT
                      ![child(Stat(parent.tree, pathDir(p)).path, baseName(p))] = Dir]]

\* os.MkdirAll(filepath.Join(destDir, p)): ok and the tree it leaves
RECURSIVE MkdirAll(_, _)
MkdirAll(tree, p) ==
    IF Stat(tree, p).ok
    THEN [ok |-> statNode(tree, p).kind = "dir", tree |-> tree]
    ELSE mkdirIn(MkdirAll(tree, pathDir(p)), p)

\* canonical path at which the entry p of the tree is created
createdAt(tree, p) ==
    IF p = <<".">> THEN <<>>
    ELSE child(Stat(tree, pathDir(p)).path, baseName(p))

\* the path under s that corresponds to q under d
rebase(q, d, s) ==
    IF d = <<>> THEN child(s, q) ELSE s \o SubSeq(q, Len(d) + 1, Len(q))

\* q lies below d
below(q, d) == IF d = <<>> THEN TRUE ELSE HasPrefix(q, d \o Sep)

\* copyDir: cp -R -P -p src dest, dest missing: the directory at s of src
\* recreated at d of dest, symlinks as symlinks
copyDir(src, s, dest, d) ==
    [q \in DOMAIN dest |->
        IF q = d THEN nodeAt(src, s)
        ELSE IF below(q, d) THEN nodeAt(src, rebase(q, d, s))
        ELSE dest[q]]

\* mergeDirContents: cp -R -P -p -n src/. dest over the paths qs below d,
\* parents before children: an entry is created when dest lacks it and
\* its parent is a directory of dest; an existing entry is left alone
RECURSIVE mergeFrom(_, _, _, _, _, _)
mergeFrom(src, s, dest, d, qs, i) ==
    IF i > Len(qs) THEN dest
    ELSE IF /\ below(qs[i], d)
            /\ nodeAt(src, rebase(qs[i], d, s)).kind # "none"
            /\ nodeAt(dest, qs[i]).kind = "none"
            /\ nodeAt(dest, parentOf(qs[i])).kind = "dir"
    THEN mergeFrom(src, s, [dest EXCEPT ![qs[i]] = nodeAt(src, rebase(qs[i], d, s))],
                   d, qs, i + 1)
    ELSE mergeFrom(src, s, dest, d, qs, i + 1)

\* the paths of a set, parents before children
RECURSIVE depthOrder(_)
depthOrder(m) ==
    IF m = {} THEN <<>>
    ELSE insertByLength(depthOrder(m \ {CHOOSE p \in m : TRUE}),
                        CHOOSE p \in m : TRUE)

mergeDirContents(src, s, dest, d) ==
    mergeFrom(src, s, dest, d, depthOrder(DOMAIN dest), 1)

\* copyFile: cp -P -p src dest, dest missing
copyFile(src, s, dest, d) == [dest EXCEPT ![d] = nodeAt(src, s)]

\* copyPath, lines 195-215: the parent directory is made, then the copy
copyAfterMkdir(src, rel, s, srcIsDir, merge, mk) ==
    IF ~mk.ok
    THEN [copied |-> FALSE, err |-> "nil", dest |-> mk.tree]
    ELSE IF srcIsDir /\ merge
    THEN [copied |-> TRUE, err |-> "nil",
          dest |-> mergeDirContents(src, s, mk.tree, createdAt(mk.tree, rel))]
    ELSE IF srcIsDir
    THEN [copied |-> TRUE, err |-> "nil",
          dest |-> copyDir(src, s, mk.tree, createdAt(mk.tree, rel))]
    ELSE [copied |-> TRUE, err |-> "nil",
          dest |-> copyFile(src, s, mk.tree, createdAt(mk.tree, rel))]

\* the rules without the conflict tests of lines 180-188: whatever exists
\* at the destination of a file is skipped, a directory is copied over it
copyPathKinds_noConflictTest(src, dest, rel, s, srcIsDir, destExists, destIsDir) ==
    IF destExists /\ ~srcIsDir
    THEN [copied |-> FALSE, err |-> "nil", dest |-> dest]
    ELSE copyAfterMkdir(src, rel, s, srcIsDir, destExists /\ destIsDir,
                        MkdirAll(dest, pathDir(rel)))

\* the rules without the skip of lines 191-193: the file is copied over
\* the entry the destination has
copyPathKinds_overwrites(src, dest, rel, s, srcIsDir, destExists, destIsDir) ==
    IF srcIsDir /\ destExists /\ ~destIsDir
    THEN [copied |-> FALSE, err |-> "destination exists and is not a directory",
          dest |-> dest]
    ELSE IF ~srcIsDir /\ destExists /\ destIsDir
    THEN [copied |-> FALSE, err |-> "destination exists and is a directory",
          dest |-> dest]
    ELSE copyAfterMkdir(src, rel, s, srcIsDir, destExists /\ destIsDir,
                        MkdirAll(dest, pathDir(rel)))

\* copyPath, lines 175-193: the conflict and skip rules
copyPathKinds(src, dest, rel, s, srcIsDir, destExists, destIsDir) ==
    IF srcIsDir /\ destExists /\ ~destIsDir
    THEN [copied |-> FALSE, err |-> "destination exists and is not a directory",
          dest |-> dest]
    ELSE IF ~srcIsDir /\ destExists /\ destIsDir
    THEN [copied |-> FALSE, err |-> "destination exists and is a directory",
          dest |-> dest]
    ELSE IF destExists /\ ~srcIsDir
    THEN [copied |-> FALSE, err |-> "nil", dest |-> dest]
    ELSE copyAfterMkdir(src, rel, s, srcIsDir, destExists /\ destIsDir,
                        MkdirAll(dest, pathDir(rel)))

copyPathInfo(src, dest, rel, srcInfo, destInfo) ==
    IF ~srcInfo.ok
    THEN [copied |-> FALSE, err |-> "lstat", dest |-> dest]
    ELSE copyPathKinds(src, dest, rel, srcInfo.path,
                       nodeAt(src, srcInfo.path).kind = "dir",
                       destInfo.ok,
                       destInfo.ok /\ nodeAt(dest, destInfo.path).kind = "dir")

\* copyPath with os.Stat for the destination, which follows a symlink there
copyPath_statsDestination(src, dest, rel) ==
    copyPathInfo(src, dest, rel, Lstat(src, rel), Stat(dest, rel))

\* copyPath(filepath.Join(srcDir, rel), filepath.Join(destDir, rel)):
\* copied, the error, and the destination tree afterwards
copyPath(src, dest, rel) ==
    copyPathInfo(src, dest, rel, Lstat(src, rel), Lstat(dest, rel))

----------------------------------------------------------------------------
(* The inputs of CopyFiles: source trees, destination trees, patterns.     *)

pathA == <<"a">>

pathASlashB == <<"a", "/", "b">>

pathASlashBSlashC == <<"a", "/", "b", "/", "c">>

pathAb == <<"a", "b">>

pathAbSlashB == <<"a", "b", "/", "b">>

pathASpace == <<"a", " ">>

PathUniverse ==
    {pathA, pathASlashB, pathASlashBSlashC, pathAb, pathAbSlashB, pathASpace}

\* file contents: of the source, and of a file the destination already has
SrcContent == <<"s">>

OldContent == <<"o">>

mkTree(a, aSlashB, aSlashBSlashC, ab, aSpace) ==
    [p \in PathUniverse |->
        CASE p = pathA -> a
          [] p = pathASlashB -> aSlashB
          [] p = pathASlashBSlashC -> aSlashBSlashC
          [] p = pathAb -> ab
          [] p = pathASpace -> aSpace
          [] OTHER -> None]

EmptyTree == mkTree(None, None, None, None, None)

\* the source trees: "a" is a file or a directory, "a/b" a file, a
\* directory or a symlink out of "a", "a/b/c" a file, "ab" a symlink to
\* "a", "a " a file whose name ends in a space
SourceTrees ==
    { t \in { mkTree(a, aSlashB, aSlashBSlashC, ab, aSpace) :
                a \in {None, File(SrcContent), Dir},
                aSlashB \in {None, File(SrcContent), Dir,
                             Link(<<".", ".", "/", "a", "b">>)},
                aSlashBSlashC \in {None, File(SrcContent)},
                ab \in {None, Link(pathA)},
                aSpace \in {None, File(SrcContent)} } :
        /\ t[pathASlashB].kind = "none" \/ t[pathA].kind = "dir"
        /\ t[pathASlashBSlashC].kind = "none" \/ t[pathASlashB].kind = "dir" }

\* the destination trees CopyFiles starts from: a fresh worktree, one with
\* a file "a", one with a directory "a" that holds a file "b"
DestTrees ==
    { EmptyTree,
      mkTree(File(OldContent), None, None, None, None),
      mkTree(Dir, File(OldContent), None, None, None) }

\* the copy patterns of the configuration
CandidatePatterns ==
    { pathA, pathASlashB, <<"a", " ", "/">>,
      <<"*">>, <<"*", "*", "/", "b">>,
      <<"!", "a">>, <<"!", "a", "/", "b">>, <<"!", "*">>,
      <<"[">>, <<"!", "[">>,
      Outside }

----------------------------------------------------------------------------
(* CopyFiles.                                                              *)

\* no selector session in the CopyFiles calls
SelectorIdle ==
    /\ items = <<>>
    /\ multiSelect = FALSE
    /\ filtered = <<>>
    /\ cursor = 0
    /\ selected = ""
    /\ query = <<>>
    /\ quitting = FALSE
    /\ checked = <<>>
    /\ cancelled = FALSE
    /\ quitSent = FALSE
    /\ phase = "idle"
    /\ tty = "unopened"
    /\ err = "nil"
    /\ retValue = ""
    /\ retValues = <<>>
    /\ lastKey = "none"
    /\ termKey = "none"
    /\ atConfirm = ""

InitCopy ==
    /\ SelectorIdle
    /\ PromptIdle
    /\ AddIdle
    /\ CmdIdle
    /\ patterns \in SeqsUpTo(CandidatePatterns, MaxPatterns)
    /\ srcDir \in SourceTrees
    /\ destDir \in DestTrees
    /\ matches = {}
    /\ paths = <<>>
    /\ nextPath = 0
    /\ stderr = <<>>
    /\ cerr = NoError
    /\ cpc = "called"
    /\ calls = <<destDir>>

\* CopyFiles, lines 18-20: no patterns
ReturnNoPatterns ==
    /\ cpc = "called"
    /\ Len(patterns) = 0
    /\ cpc' = "returned"
    /\ UNCHANGED <<selVars, promptVars, addVars, cmdVars, patterns, srcDir, destDir, matches, paths,
                   nextPath, stderr, cerr, calls>>

\* CopyFiles, lines 22-53: a pattern cannot be matched
MatchFails ==
    /\ cpc = "called"
    /\ Len(patterns) > 0
    /\ \E res \in {resolveMatches(srcDir, patterns)} :
         /\ res.err # "nil"
         /\ cerr' = [msg |-> res.err, subject |-> res.pattern,
                     cause |-> "syntax error in pattern"]
    /\ cpc' = "returned"
    /\ UNCHANGED <<selVars, promptVars, addVars, cmdVars, patterns, srcDir, destDir, matches, paths,
                   nextPath, stderr, calls>>

\* CopyFiles, lines 22-56: the match set and the Copy Plan
ResolvePlan ==
    /\ cpc = "called"
    /\ Len(patterns) > 0
    /\ \E res \in {resolveMatches(srcDir, patterns)} :
         /\ res.err = "nil"
         /\ matches' = res.matches
         /\ paths' = planOf(srcDir, res).paths
    /\ nextPath' = 1
    /\ cpc' = "copying"
    /\ UNCHANGED <<selVars, promptVars, addVars, cmdVars, patterns, srcDir, destDir, stderr, cerr, calls>>

\* CopyFiles, lines 58-69: one entry of the Copy Plan is copied or skipped
CopyEntry ==
    /\ cpc = "copying"
    /\ nextPath <= Len(paths)
    /\ \E r \in {copyPath(srcDir, destDir, paths[nextPath])} :
         /\ r.err = "nil"
         /\ destDir' = r.dest
         /\ stderr' = IF r.copied THEN Append(stderr, paths[nextPath])
                      ELSE stderr
    /\ nextPath' = nextPath + 1
    /\ UNCHANGED <<selVars, promptVars, addVars, cmdVars, patterns, srcDir, matches, paths, cerr, cpc, calls>>

\* CopyFiles, lines 62-65: copyPath fails
CopyEntryFails ==
    /\ cpc = "copying"
    /\ nextPath <= Len(paths)
    /\ \E r \in {copyPath(srcDir, destDir, paths[nextPath])} :
         /\ r.err # "nil"
         /\ cerr' = [msg |-> "failed to copy", subject |-> paths[nextPath],
                     cause |-> r.err]
    /\ cpc' = "returned"
    /\ UNCHANGED <<selVars, promptVars, addVars, cmdVars, patterns, srcDir, destDir, matches, paths,
                   nextPath, stderr, calls>>

\* CopyFiles, line 71
ReturnOk ==
    /\ cpc = "copying"
    /\ nextPath > Len(paths)
    /\ cpc' = "returned"
    /\ UNCHANGED <<selVars, promptVars, addVars, cmdVars, patterns, srcDir, destDir, matches, paths,
                   nextPath, stderr, cerr, calls>>

\* after a call that succeeded CopyFiles is called once more with the same
\* arguments, on the destination that call left
CallAgain ==
    /\ cpc = "returned"
    /\ cerr = NoError
    /\ Len(calls) < MaxCalls
    /\ calls' = Append(calls, destDir)
    /\ matches' = {}
    /\ paths' = <<>>
    /\ nextPath' = 0
    /\ stderr' = <<>>
    /\ cerr' = NoError
    /\ cpc' = "called"
    /\ UNCHANGED <<selVars, promptVars, addVars, cmdVars, patterns, srcDir, destDir>>

NextCopy ==
    \/ ReturnNoPatterns
    \/ MatchFails
    \/ ResolvePlan
    \/ CopyEntry
    \/ CopyEntryFails
    \/ ReturnOk
    \/ CallAgain

vars == <<selVars, copyVars, promptVars, addVars, cmdVars>>

Spec == Init /\ [][Next]_vars

SpecCopy == InitCopy /\ [][NextCopy]_vars

----------------------------------------------------------------------------
(* wt add: runAdd with the CopyFiles call above and hooks.Run.             *)

\* the post-creation hooks of the configuration (config.Hook); the second
\* has an if_exists path
CandidateHooks ==
    { [Name |-> "h1", IfExists |-> ""],
      [Name |-> "h2", IfExists |-> "a"] }

\* cfg.CopyPatterns in the wt add calls
AddPatternLists == { <<>>, <<pathA>>, <<pathA, <<"[">>>> }

\* the repository root in the wt add calls
AddSourceTrees ==
    { mkTree(File(SrcContent), None, None, None, None),
      mkTree(Dir, File(SrcContent), None, None, None) }

\* the error runAdd returns: nil, or a message and what it names
AddNoError == [msg |-> "nil", name |-> ""]

InitAdd ==
    /\ SelectorIdle
    /\ PromptIdle
    /\ CmdIdle
    /\ patterns \in AddPatternLists
    /\ srcDir \in AddSourceTrees
    /\ destDir \in DestTrees
    /\ matches = {}
    /\ paths = <<>>
    /\ nextPath = 0
    /\ stderr = <<>>
    /\ cerr = NoError
    /\ cpc = "idle"
    /\ calls = <<>>
    /\ hooks \in SeqsUpTo(CandidateHooks, MaxHooks)
    /\ addTmux \in BOOLEAN
    /\ addPrintPath \in BOOLEAN
    /\ apc = "called"
    /\ hookIdx = 0
    /\ hookLog = <<>>
    /\ tmux = "none"
    /\ stdout = <<>>
    /\ addErr = AddNoError

\* runAdd, lines 72-114: one of the steps up to git.CreateWorktree fails
AddFailsEarly ==
    /\ apc = "called"
    /\ \E e \in {"repo root", "failed to load config", "preprocess",
                 "worktree dir", "failed to create worktree directory",
                 "git worktree add"} :
         addErr' = [msg |-> e, name |-> ""]
    /\ apc' = "returned"
    /\ UNCHANGED <<selVars, promptVars, cmdVars, copyVars, hooks, addTmux,
                   addPrintPath, hookIdx, hookLog, tmux, stdout>>

\* runAdd, lines 72-114: the worktree is created
AddCreated ==
    /\ apc = "called"
    /\ apc' = "created"
    /\ UNCHANGED <<selVars, promptVars, cmdVars, copyVars, hooks, addTmux,
                   addPrintPath, hookIdx, hookLog, tmux, stdout, addErr>>

\* runAdd, lines 116-118: copy.CopyFiles is called
AddCopyFiles ==
    /\ apc = "created"
    /\ Len(patterns) > 0
    /\ cpc' = "called"
    /\ calls' = <<destDir>>
    /\ apc' = "copying"
    /\ UNCHANGED <<selVars, promptVars, cmdVars, patterns, srcDir, destDir, matches,
                   paths, nextPath, stderr, cerr, hooks, addTmux,
                   addPrintPath, hookIdx, hookLog, tmux, stdout, addErr>>

\* runAdd, line 116: no copy patterns
AddNoCopy ==
    /\ apc = "created"
    /\ Len(patterns) = 0
    /\ apc' = "copied"
    /\ UNCHANGED <<selVars, promptVars, cmdVars, copyVars, hooks, addTmux,
                   addPrintPath, hookIdx, hookLog, tmux, stdout, addErr>>

\* runAdd that goes on after CopyFiles has returned an error
AddCopyFails_goesOn ==
    /\ apc = "copying"
    /\ cpc = "returned"
    /\ cerr # NoError
    /\ apc' = "copied"
    /\ UNCHANGED <<selVars, promptVars, cmdVars, copyVars, hooks, addTmux,
                   addPrintPath, hookIdx, hookLog, tmux, stdout, addErr>>

\* runAdd, lines 118-120: CopyFiles has returned an error
AddCopyFails ==
    /\ apc = "copying"
    /\ cpc = "returned"
    /\ cerr # NoError
    /\ addErr' = [msg |-> "failed to copy files", name |-> cerr.msg]
    /\ apc' = "returned"
    /\ UNCHANGED <<selVars, promptVars, cmdVars, copyVars, hooks, addTmux,
                   addPrintPath, hookIdx, hookLog, tmux, stdout>>

\* runAdd, lines 118-121: CopyFiles has returned nil
AddCopied ==
    /\ apc = "copying"
    /\ cpc = "returned"
    /\ cerr = NoError
    /\ apc' = "copied"
    /\ UNCHANGED <<selVars, promptVars, cmdVars, copyVars, hooks, addTmux,
                   addPrintPath, hookIdx, hookLog, tmux, stdout, addErr>>

\* runAdd, lines 123-125: hooks.Run is called
AddRunHooks ==
    /\ apc = "copied"
    /\ Len(hooks) > 0
    /\ hookIdx' = 0
    /\ apc' = "hooks"
    /\ UNCHANGED <<selVars, promptVars, cmdVars, copyVars, hooks, addTmux,
                   addPrintPath, hookLog, tmux, stdout, addErr>>

\* runAdd, line 123: no hooks
AddNoHooks ==
    /\ apc = "copied"
    /\ Len(hooks) = 0
    /\ apc' = "hooked"
    /\ UNCHANGED <<selVars, promptVars, cmdVars, copyVars, hooks, addTmux,
                   addPrintPath, hookIdx, hookLog, tmux, stdout, addErr>>

\* hooks.Run, lines 16-25: os.Stat says the if_exists path does not exist
HookSkipped ==
    /\ apc = "hooks"
    /\ hookIdx < Len(hooks)
    /\ hooks[hookIdx + 1].IfExists # ""
    /\ hookLog' = Append(hookLog, [hook |-> hookIdx + 1, what |-> "skipped"])
    /\ stdout' = Append(stdout, <<"Skipping hook", hooks[hookIdx + 1].Name>>)
    /\ hookIdx' = hookIdx + 1
    /\ UNCHANGED <<selVars, promptVars, cmdVars, copyVars, hooks, addTmux,
                   addPrintPath, apc, tmux, addErr>>

\* hooks.Run, lines 16-35: no if_exists path, or os.Stat finds it or fails
\* in another way; sh -c is started
HookStarts ==
    /\ apc = "hooks"
    /\ hookIdx < Len(hooks)
    /\ hookLog' = Append(hookLog, [hook |-> hookIdx + 1, what |-> "started"])
    /\ stdout' = Append(stdout, <<"Running hook", hooks[hookIdx + 1].Name>>)
    /\ apc' = "hookRunning"
    /\ UNCHANGED <<selVars, promptVars, cmdVars, copyVars, hooks, addTmux,
                   addPrintPath, hookIdx, tmux, addErr>>

\* hooks.Run, line 35: cmd.Run() returns nil
HookSucceeds ==
    /\ apc = "hookRunning"
    /\ hookLog' = Append(hookLog, [hook |-> hookIdx + 1, what |-> "exited"])
    /\ hookIdx' = hookIdx + 1
    /\ apc' = "hooks"
    /\ UNCHANGED <<selVars, promptVars, cmdVars, copyVars, hooks, addTmux,
                   addPrintPath, tmux, stdout, addErr>>

\* hooks.Run that goes on with the next hook after a failed one
HookFails_goesOn ==
    /\ apc = "hookRunning"
    /\ hookLog' = Append(hookLog, [hook |-> hookIdx + 1, what |-> "failed"])
    /\ hookIdx' = hookIdx + 1
    /\ apc' = "hooks"
    /\ UNCHANGED <<selVars, promptVars, cmdVars, copyVars, hooks, addTmux,
                   addPrintPath, tmux, stdout, addErr>>

\* hooks.Run, lines 35-37, and runAdd, lines 125-127: cmd.Run() returns an
\* error
HookFails ==
    /\ apc = "hookRunning"
    /\ hookLog' = Append(hookLog, [hook |-> hookIdx + 1, what |-> "failed"])
    /\ addErr' = [msg |-> "hook failed", name |-> hooks[hookIdx + 1].Name]
    /\ apc' = "returned"
    /\ UNCHANGED <<selVars, promptVars, cmdVars, copyVars, hooks, addTmux,
                   addPrintPath, hookIdx, tmux, stdout>>

\* hooks.Run, line 39: every hook is passed
HooksDone ==
    /\ apc = "hooks"
    /\ hookIdx = Len(hooks)
    /\ apc' = "hooked"
    /\ UNCHANGED <<selVars, promptVars, cmdVars, copyVars, hooks, addTmux,
                   addPrintPath, hookIdx, hookLog, tmux, stdout, addErr>>

\* runAdd, lines 130-132, openTmuxPane: not inside tmux, or tmux new-window
\* runs and succeeds or fails
AddOpenTmux ==
    /\ apc = "hooked"
    /\ addTmux
    /\ \E r \in {"not inside a tmux session", "opened", "failed"} :
         /\ tmux' = IF r = "opened" THEN "opened" ELSE "none"
         /\ addErr' = IF r = "opened" THEN AddNoError
                      ELSE [msg |-> r, name |-> ""]
    /\ apc' = "returned"
    /\ UNCHANGED <<selVars, promptVars, cmdVars, copyVars, hooks, addTmux,
                   addPrintPath, hookIdx, hookLog, stdout>>

\* runAdd, lines 134-140: the path or the cd line on standard output
AddPrint ==
    /\ apc = "hooked"
    /\ ~addTmux
    /\ stdout' = Append(stdout, IF addPrintPath THEN <<"path">>
                                ELSE <<"cd", "path">>)
    /\ apc' = "returned"
    /\ UNCHANGED <<selVars, promptVars, cmdVars, copyVars, hooks, addTmux,
                   addPrintPath, hookIdx, hookLog, tmux, addErr>>

NextAdd ==
    \/ AddFailsEarly
    \/ AddCreated
    \/ AddCopyFiles
    \/ AddNoCopy
    \/ MatchFails
    \/ ResolvePlan
    \/ CopyEntry
    \/ CopyEntryFails
    \/ ReturnOk
    \/ AddCopyFails
    \/ AddCopied
    \/ AddRunHooks
    \/ AddNoHooks
    \/ HookSkipped
    \/ HookStarts
    \/ HookSucceeds
    \/ HookFails
    \/ HooksDone
    \/ AddOpenTmux
    \/ AddPrint

SpecAdd == InitAdd /\ [][NextAdd]_vars

----------------------------------------------------------------------------
(* wt cd and wt rm: runCd, runRemove and removeWorktreeWithConfirm of      *)
(* main.go around Select, MultiSelect and Confirm, and git.ListWorktrees.  *)

\* one line of `git worktree list --porcelain`: its first word and the rest
Line(key, val) == [key |-> key, val |-> val]

\* a branch reference below refs/heads/
headsRef(name) == [ns |-> "refs/heads/", name |-> name]

\* the characters of a worktree path
pathText(p) ==
    CASE p = "/a" -> <<"/", "a">>
      [] p = "/b" -> <<"/", "b">>
      [] p = "/B/a" -> <<"/", "B", "/", "a">>
      [] OTHER -> <<>>

\* the listing of the main worktree, on branch b
MainBlock ==
    <<Line("worktree", "/a"), Line("HEAD", "c0"), Line("branch", headsRef(<<"b">>)),
      Line("", "")>>

\* the listing of a bare repository
BareBlock == <<Line("worktree", "/a"), Line("bare", ""), Line("", "")>>

\* the listing of a linked worktree on branch ab
BranchBlock ==
    <<Line("worktree", "/b"), Line("HEAD", "c1"),
      Line("branch", headsRef(<<"a", "b">>)), Line("", "")>>

\* the listing of a linked worktree with a detached HEAD
DetachedBlock ==
    <<Line("worktree", "/B/a"), Line("HEAD", "c2"), Line("detached", ""),
      Line("", "")>>

\* what git prints: the main worktree first, then the linked ones
GitOutputs ==
    { MainBlock, MainBlock \o BranchBlock, MainBlock \o DetachedBlock,
      MainBlock \o BranchBlock \o DetachedBlock, BareBlock \o BranchBlock }

\* the path of the main worktree in every listing
MainPath == "/a"

\* the zero Worktree
NoWorktree == [Path |-> "", Branch |-> <<>>, Commit |-> "", IsMain |-> FALSE]

\* strings.TrimPrefix(branch, "refs/heads/") on a reference
trimHeads(ref) == IF ref.ns = "refs/heads/" THEN ref.name ELSE <<ref.ns>> \o ref.name

\* ListWorktrees: the scanner loop from line i on
RECURSIVE scanLines(_, _, _, _)
scanLines(output, i, worktrees, current) ==
    IF i > Len(output)
    THEN IF current.Path # "" THEN Append(worktrees, current) ELSE worktrees
    ELSE CASE output[i].key = "worktree" ->
                scanLines(output, i + 1,
                          IF current.Path # "" THEN Append(worktrees, current)
                                               ELSE worktrees,
                          [NoWorktree EXCEPT !.Path = output[i].val])
           [] output[i].key = "HEAD" ->
                scanLines(output, i + 1, worktrees,
                          [current EXCEPT !.Commit = output[i].val])
           [] output[i].key = "branch" ->
                scanLines(output, i + 1, worktrees,
                          [current EXCEPT !.Branch = trimHeads(output[i].val)])
           [] output[i].key = "bare" ->
                scanLines(output, i + 1, worktrees,
                          [current EXCEPT !.IsMain = TRUE])
           [] OTHER -> scanLines(output, i + 1, worktrees, current)

\* ListWorktrees that marks no first worktree
ListWorktrees_firstUnmarked(output) == scanLines(output, 1, <<>>, NoWorktree)

\* ListWorktrees on the output of git: the scanned worktrees, the first one
\* marked as main
ListWorktrees(output) ==
    [i \in 1..Len(scanLines(output, 1, <<>>, NoWorktree)) |->
        IF i = 1
        THEN [scanLines(output, 1, <<>>, NoWorktree)[1] EXCEPT !.IsMain = TRUE]
        ELSE scanLines(output, 1, <<>>, NoWorktree)[i]]

\* runCd: the label of a worktree
cdLabel(wt) ==
    IF wt.Branch = <<>> THEN baseName(pathText(wt.Path)) ELSE wt.Branch

\* runRemove: the label of a worktree
rmLabel(wt) ==
    IF wt.Branch = <<>> THEN pathText(wt.Path)
    ELSE wt.Branch \o <<" ", "(">> \o pathText(wt.Path) \o <<")">>

\* runCd: the items of the worktrees from position i on, main ones left out
RECURSIVE cdItems(_, _)
cdItems(worktrees, i) ==
    IF i > Len(worktrees) THEN <<>>
    ELSE IF worktrees[i].IsMain THEN cdItems(worktrees, i + 1)
    ELSE <<[Label |-> cdLabel(worktrees[i]), Value |-> worktrees[i].Path]>>
             \o cdItems(worktrees, i + 1)

\* runRemove: the items of the worktrees from position i on, main ones left
\* out
RECURSIVE rmItems(_, _)
rmItems(worktrees, i) ==
    IF i > Len(worktrees) THEN <<>>
    ELSE IF worktrees[i].IsMain THEN rmItems(worktrees, i + 1)
    ELSE <<[Label |-> rmLabel(worktrees[i]), Value |-> worktrees[i].Path]>>
             \o rmItems(worktrees, i + 1)

\* the outcomes of git.RemoveWorktree that removeWorktreeWithConfirm tells
\* apart: nil, git.ErrDirtyWorktree, any other error
RemoveOutcomes == {"nil", "ErrDirtyWorktree", "exit status 128"}

\* a git.RemoveWorktree call and what it returned
RemoveCall(path, force, e) == [path |-> path, force |-> force, err |-> e]

\* no program runs on the terminal: the state a new tea.Program starts from
sessionReset ==
    /\ filtered' = <<>>
    /\ cursor' = 0
    /\ selected' = ""
    /\ query' = <<>>
    /\ quitting' = FALSE
    /\ checked' = <<>>
    /\ cancelled' = FALSE
    /\ quitSent' = FALSE
    /\ tty' = "unopened"
    /\ lastKey' = "none"
    /\ termKey' = "none"
    /\ atConfirm' = ""

InitCmd ==
    /\ SelectorIdle
    /\ PromptIdle
    /\ AddIdle
    /\ patterns = <<>>
    /\ srcDir = <<>>
    /\ destDir = <<>>
    /\ matches = {}
    /\ paths = <<>>
    /\ nextPath = 0
    /\ stderr = <<>>
    /\ cerr = NoError
    /\ cpc = "idle"
    /\ calls = <<>>
    /\ cmdName \in {"cd", "rm"}
    /\ gitOutput \in GitOutputs
    /\ args \in {<<>>, <<"/a">>, <<"/b">>}
    /\ removeForce \in BOOLEAN
    /\ cdTmux \in BOOLEAN
    /\ cdPrintPath \in BOOLEAN
    /\ (cmdName = "cd") => (args = <<>> /\ ~removeForce)
    /\ (cmdName = "rm") => (~cdTmux /\ ~cdPrintPath)
    /\ wpc = "start"
    /\ rmQueue = <<>>
    /\ rmIdx = 0
    /\ gitCalls = <<>>
    /\ cmdOut = <<>>
    /\ pane = ""
    /\ cmdErr = "nil"

\* runCd, lines 162-165: git worktree list fails
CdListFails ==
    /\ wpc = "start"
    /\ cmdName = "cd"
    /\ cmdErr' = "failed to list worktrees"
    /\ wpc' = "done"
    /\ UNCHANGED <<selVars, copyVars, promptVars, addVars, cmdName, gitOutput,
                   args, removeForce, cdTmux, cdPrintPath, rmQueue, rmIdx,
                   gitCalls, cmdOut, pane>>

\* runCd, lines 167-186: every worktree is a main one
CdNoItems ==
    /\ wpc = "start"
    /\ cmdName = "cd"
    /\ cdItems(ListWorktrees(gitOutput), 1) = <<>>
    /\ cmdOut' = Append(cmdOut, <<"No worktrees to switch to.">>)
    /\ wpc' = "done"
    /\ UNCHANGED <<selVars, copyVars, promptVars, addVars, cmdName, gitOutput,
                   args, removeForce, cdTmux, cdPrintPath, rmQueue, rmIdx,
                   gitCalls, pane, cmdErr>>

\* runCd, lines 167-188: tui.Select is called with the items
CdSelect ==
    /\ wpc = "start"
    /\ cmdName = "cd"
    /\ cdItems(ListWorktrees(gitOutput), 1) # <<>>
    /\ items' = cdItems(ListWorktrees(gitOutput), 1)
    /\ multiSelect' = FALSE
    /\ phase' = "called"
    /\ wpc' = "selecting"
    /\ UNCHANGED <<modelVars, quitSent, tty, err, retValue, retValues, histVars,
                   copyVars, promptVars, addVars, cmdName, gitOutput, args,
                   removeForce, cdTmux, cdPrintPath, rmQueue, rmIdx, gitCalls,
                   cmdOut, pane, cmdErr>>

\* runCd, lines 189-191: tui.Select returned an error
CdSelectFails ==
    /\ wpc = "selecting"
    /\ cmdName = "cd"
    /\ phase = "returned"
    /\ err # "nil"
    /\ cmdErr' = err
    /\ wpc' = "done"
    /\ UNCHANGED <<selVars, copyVars, promptVars, addVars, cmdName, gitOutput,
                   args, removeForce, cdTmux, cdPrintPath, rmQueue, rmIdx,
                   gitCalls, cmdOut, pane>>

\* runCd, lines 193-195: tui.Select returned "", return nil
CdCancelled ==
    /\ wpc = "selecting"
    /\ cmdName = "cd"
    /\ phase = "returned"
    /\ err = "nil"
    /\ retValue = ""
    /\ wpc' = "done"
    /\ UNCHANGED <<selVars, copyVars, promptVars, addVars, cmdName, gitOutput,
                   args, removeForce, cdTmux, cdPrintPath, rmQueue, rmIdx,
                   gitCalls, cmdOut, pane, cmdErr>>

\* runCd, lines 197-199, openTmuxPane: not inside tmux, or tmux new-window
\* runs and succeeds or fails
CdOpenTmux ==
    /\ wpc = "selecting"
    /\ cmdName = "cd"
    /\ phase = "returned"
    /\ err = "nil"
    /\ retValue # ""
    /\ cdTmux
    /\ \E r \in {"not inside a tmux session", "opened", "failed"} :
         /\ pane' = IF r = "opened" THEN retValue ELSE pane
         /\ cmdErr' = IF r = "opened" THEN "nil" ELSE r
    /\ wpc' = "done"
    /\ UNCHANGED <<selVars, copyVars, promptVars, addVars, cmdName, gitOutput,
                   args, removeForce, cdTmux, cdPrintPath, rmQueue, rmIdx,
                   gitCalls, cmdOut>>

\* runCd, lines 201-207: the path or the cd line on standard output
CdPrint ==
    /\ wpc = "selecting"
    /\ cmdName = "cd"
    /\ phase = "returned"
    /\ err = "nil"
    /\ retValue # ""
    /\ ~cdTmux
    /\ cmdOut' = Append(cmdOut, IF cdPrintPath THEN <<retValue>>
                                ELSE <<"cd", retValue>>)
    /\ wpc' = "done"
    /\ UNCHANGED <<selVars, copyVars, promptVars, addVars, cmdName, gitOutput,
                   args, removeForce, cdTmux, cdPrintPath, rmQueue, rmIdx,
                   gitCalls, pane, cmdErr>>

\* runRemove, lines 225-227: a path argument goes to
\* removeWorktreeWithConfirm
RmDirect ==
    /\ wpc = "start"
    /\ cmdName = "rm"
    /\ Len(args) > 0
    /\ rmQueue' = <<args[1]>>
    /\ wpc' = "removing"
    /\ UNCHANGED <<selVars, copyVars, promptVars, addVars, cmdName, gitOutput,
                   args, removeForce, cdTmux, cdPrintPath, rmIdx, gitCalls,
                   cmdOut, pane, cmdErr>>

\* runRemove, lines 230-233: git worktree list fails
RmListFails ==
    /\ wpc = "start"
    /\ cmdName = "rm"
    /\ Len(args) = 0
    /\ cmdErr' = "failed to list worktrees"
    /\ wpc' = "done"
    /\ UNCHANGED <<selVars, copyVars, promptVars, addVars, cmdName, gitOutput,
                   args, removeForce, cdTmux, cdPrintPath, rmQueue, rmIdx,
                   gitCalls, cmdOut, pane>>

\* runRemove, lines 235-253: every worktree is a main one
RmNoItems ==
    /\ wpc = "start"
    /\ cmdName = "rm"
    /\ Len(args) = 0
    /\ rmItems(ListWorktrees(gitOutput), 1) = <<>>
    /\ cmdOut' = Append(cmdOut, <<"No worktrees to remove.">>)
    /\ wpc' = "done"
    /\ UNCHANGED <<selVars, copyVars, promptVars, addVars, cmdName, gitOutput,
                   args, removeForce, cdTmux, cdPrintPath, rmQueue, rmIdx,
                   gitCalls, pane, cmdErr>>

\* runRemove, lines 235-255: tui.MultiSelect is called with the items
RmSelect ==
    /\ wpc = "start"
    /\ cmdName = "rm"
    /\ Len(args) = 0
    /\ rmItems(ListWorktrees(gitOutput), 1) # <<>>
    /\ items' = rmItems(ListWorktrees(gitOutput), 1)
    /\ multiSelect' = TRUE
    /\ phase' = "called"
    /\ wpc' = "selecting"
    /\ UNCHANGED <<modelVars, quitSent, tty, err, retValue, retValues, histVars,
                   copyVars, promptVars, addVars, cmdName, gitOutput, args,
                   removeForce, cdTmux, cdPrintPath, rmQueue, rmIdx, gitCalls,
                   cmdOut, pane, cmdErr>>

\* runRemove, lines 255-258: tui.MultiSelect returned an error
RmSelectFails ==
    /\ wpc = "selecting"
    /\ cmdName = "rm"
    /\ phase = "returned"
    /\ err # "nil"
    /\ cmdErr' = err
    /\ wpc' = "done"
    /\ UNCHANGED <<selVars, copyVars, promptVars, addVars, cmdName, gitOutput,
                   args, removeForce, cdTmux, cdPrintPath, rmQueue, rmIdx,
                   gitCalls, cmdOut, pane>>

\* runRemove, lines 260-263: nothing was selected
RmNoneSelected ==
    /\ wpc = "selecting"
    /\ cmdName = "rm"
    /\ phase = "returned"
    /\ err = "nil"
    /\ Len(retValues) = 0
    /\ cmdOut' = Append(cmdOut, <<"No worktrees selected.">>)
    /\ wpc' = "done"
    /\ UNCHANGED <<selVars, copyVars, promptVars, addVars, cmdName, gitOutput,
                   args, removeForce, cdTmux, cdPrintPath, rmQueue, rmIdx,
                   gitCalls, pane, cmdErr>>

\* runRemove, line 265: the loop starts over the selected paths; the
\* selector's program is gone
RmSelected ==
    /\ wpc = "selecting"
    /\ cmdName = "rm"
    /\ phase = "returned"
    /\ err = "nil"
    /\ Len(retValues) > 0
    /\ rmQueue' = retValues
    /\ wpc' = "removing"
    /\ sessionReset
    /\ UNCHANGED <<items, multiSelect, phase, err, retValue, retValues,
                   copyVars, promptVars, addVars, cmdName, gitOutput, args,
                   removeForce, cdTmux, cdPrintPath, rmIdx, gitCalls, cmdOut,
                   pane, cmdErr>>

\* runRemove, line 266: the line printed before an interactive removal
removingLine ==
    IF Len(args) = 0 THEN <<<<"Removing worktree:", rmQueue[rmIdx + 1]>>>>
    ELSE <<>>

\* the loop of runRemove is at a path
atPath == wpc = "removing" /\ rmIdx < Len(rmQueue)

\* removeWorktreeWithConfirm, lines 278-281: git.RemoveWorktree(path, force)
\* succeeds
RmRemoved ==
    /\ atPath
    /\ gitCalls' = Append(gitCalls,
                          RemoveCall(rmQueue[rmIdx + 1], removeForce, "nil"))
    /\ cmdOut' = cmdOut \o removingLine
    /\ rmIdx' = rmIdx + 1
    /\ UNCHANGED <<selVars, copyVars, promptVars, addVars, cmdName, gitOutput,
                   args, removeForce, cdTmux, cdPrintPath, wpc, rmQueue, pane,
                   cmdErr>>

\* removeWorktreeWithConfirm, lines 283-285: an error other than
\* git.ErrDirtyWorktree is returned, and runRemove returns it
RmRemoveFails ==
    /\ atPath
    /\ gitCalls' = Append(gitCalls, RemoveCall(rmQueue[rmIdx + 1], removeForce,
                                               "exit status 128"))
    /\ cmdOut' = cmdOut \o removingLine
    /\ cmdErr' = "exit status 128"
    /\ wpc' = "done"
    /\ UNCHANGED <<selVars, copyVars, promptVars, addVars, cmdName, gitOutput,
                   args, removeForce, cdTmux, cdPrintPath, rmQueue, rmIdx,
                   pane>>

\* removeWorktreeWithConfirm, lines 283-288: git.ErrDirtyWorktree, the
\* message is printed and tui.Confirm is called
RmDirty ==
    /\ atPath
    /\ gitCalls' = Append(gitCalls, RemoveCall(rmQueue[rmIdx + 1], removeForce,
                                               "ErrDirtyWorktree"))
    /\ cmdOut' = cmdOut \o removingLine
                   \o <<<<"contains modified or untracked files",
                          rmQueue[rmIdx + 1]>>>>
    /\ wpc' = "prompting"
    /\ phase' = "confirmCalled"
    /\ err' = "nil"
    /\ confirmModel' = newConfirmModel
    /\ retConfirm' = FALSE
    /\ sessionReset
    /\ UNCHANGED <<items, multiSelect, retValue, retValues, copyVars, addVars,
                   cmdName, gitOutput, args, removeForce, cdTmux, cdPrintPath,
                   rmQueue, rmIdx, pane, cmdErr>>

\* tui.Confirm has returned to removeWorktreeWithConfirm
prompted == wpc = "prompting" /\ phase = "confirmReturned"

\* removeWorktreeWithConfirm, lines 289-291: the prompt failed
RmPromptFails ==
    /\ prompted
    /\ err # "nil"
    /\ cmdErr' = err
    /\ wpc' = "done"
    /\ UNCHANGED <<selVars, copyVars, promptVars, addVars, cmdName, gitOutput,
                   args, removeForce, cdTmux, cdPrintPath, rmQueue, rmIdx,
                   gitCalls, cmdOut, pane>>

\* removeWorktreeWithConfirm that forces the removal of a declined path
RmDeclined_forces ==
    /\ prompted
    /\ err = "nil"
    /\ ~retConfirm
    /\ gitCalls' = Append(gitCalls, RemoveCall(rmQueue[rmIdx + 1], TRUE, "nil"))
    /\ rmIdx' = rmIdx + 1
    /\ wpc' = "removing"
    /\ UNCHANGED <<selVars, copyVars, promptVars, addVars, cmdName, gitOutput,
                   args, removeForce, cdTmux, cdPrintPath, rmQueue, cmdOut,
                   pane, cmdErr>>

\* removeWorktreeWithConfirm, lines 293-296: declined, "Skipped.", nil
RmDeclined ==
    /\ prompted
    /\ err = "nil"
    /\ ~retConfirm
    /\ cmdOut' = Append(cmdOut, <<"Skipped.">>)
    /\ rmIdx' = rmIdx + 1
    /\ wpc' = "removing"
    /\ UNCHANGED <<selVars, copyVars, promptVars, addVars, cmdName, gitOutput,
                   args, removeForce, cdTmux, cdPrintPath, rmQueue, gitCalls,
                   pane, cmdErr>>

\* removeWorktreeWithConfirm, line 298: confirmed, the forced removal
\* succeeds
RmForced ==
    /\ prompted
    /\ err = "nil"
    /\ retConfirm
    /\ gitCalls' = Append(gitCalls, RemoveCall(rmQueue[rmIdx + 1], TRUE, "nil"))
    /\ rmIdx' = rmIdx + 1
    /\ wpc' = "removing"
    /\ UNCHANGED <<selVars, copyVars, promptVars, addVars, cmdName, gitOutput,
                   args, removeForce, cdTmux, cdPrintPath, rmQueue, cmdOut,
                   pane, cmdErr>>

\* removeWorktreeWithConfirm, line 298: confirmed, the forced removal fails
\* and runRemove returns its error
RmForceFails ==
    /\ prompted
    /\ err = "nil"
    /\ retConfirm
    /\ \E e \in RemoveOutcomes \ {"nil"} :
         /\ gitCalls' = Append(gitCalls, RemoveCall(rmQueue[rmIdx + 1], TRUE, e))
         /\ cmdErr' = e
    /\ wpc' = "done"
    /\ UNCHANGED <<selVars, copyVars, promptVars, addVars, cmdName, gitOutput,
                   args, removeForce, cdTmux, cdPrintPath, rmQueue, rmIdx,
                   cmdOut, pane>>

\* runRemove, lines 226 and 272: every path is passed, return nil
RmDone ==
    /\ wpc = "removing"
    /\ rmIdx = Len(rmQueue)
    /\ wpc' = "done"
    /\ UNCHANGED <<selVars, copyVars, promptVars, addVars, cmdName, gitOutput,
                   args, removeForce, cdTmux, cdPrintPath, rmQueue, rmIdx,
                   gitCalls, cmdOut, pane, cmdErr>>

NextCmd ==
    \/ CdListFails
    \/ CdNoItems
    \/ CdSelect
    \/ CdSelectFails
    \/ CdCancelled
    \/ CdOpenTmux
    \/ CdPrint
    \/ RmDirect
    \/ RmListFails
    \/ RmNoItems
    \/ RmSelect
    \/ RmSelectFails
    \/ RmNoneSelected
    \/ RmSelected
    \/ RmRemoved
    \/ RmRemoveFails
    \/ RmDirty
    \/ RmPromptFails
    \/ RmDeclined
    \/ RmForced
    \/ RmForceFails
    \/ RmDone
    \/ OpenTtyFails
    \/ StartSession
    \/ KeyCancel
    \/ KeyEnter
    \/ KeyUp
    \/ KeyDown
    \/ KeyTab
    \/ KeyRune
    \/ KeyBackspace
    \/ KeyOther
    \/ RunFails
    \/ ProcessQuit
    \/ ConfirmOpenTtyFails
    \/ ConfirmStart
    \/ ConfirmKey
    \/ ConfirmRunFails
    \/ ConfirmProcessQuit

SpecCmd == InitCmd /\ [][NextCmd]_vars

----------------------------------------------------------------------------
(* Properties of the selector session.                                     *)

\* q[i..] is a subsequence of l[j..], letters compared without their case
RECURSIVE SubseqFrom(_, _, _, _)
SubseqFrom(q, l, i, j) ==
    IF i > Len(q) THEN TRUE
    ELSE IF j > Len(l) THEN FALSE
    ELSE IF ToLowerRune(q[i]) = ToLowerRune(l[j]) THEN SubseqFrom(q, l, i + 1, j + 1)
    ELSE SubseqFrom(q, l, i, j + 1)

IsSubsequenceCI(q, l) == SubseqFrom(q, l, 1, 1)

\* how often backing index i appears in the ranked view
TimesRanked(i) == Cardinality({k \in 1..Len(filtered) : filtered[k].origIndex = i})

\* C1: for a non-empty query the ranked view holds an item exactly once if
\* its label contains the query runes in order, case-insensitively, and
\* does not hold it otherwise
C1_RankedIffSubsequence ==
    (phase = "running" /\ query # <<>>) =>
        \A i \in 0..(Len(items) - 1) :
            TimesRanked(i) = IF IsSubsequenceCI(query, items[i + 1].Label)
                             THEN 1 ELSE 0

\* C2: whenever the query is empty the ranked view is the backing list in
\* its original order, every entry with score 0, no highlight positions and
\* origIndex equal to its position
C2_EmptyQueryShowsBackingList ==
    (phase = "running" /\ query = <<>>) =>
        /\ Len(filtered) = Len(items)
        /\ \A k \in 1..Len(items) :
              /\ filtered[k].item = items[k]
              /\ filtered[k].score = 0
              /\ filtered[k].positions = <<>>
              /\ filtered[k].origIndex = k - 1

\* the query has just been edited back to empty, over a list of two or more
C2_Witness ==
    /\ phase = "running"
    /\ lastKey = "edit"
    /\ query = <<>>
    /\ Len(items) >= 2

\* C3: in multi-select mode a step that changes the query leaves the
\* checked flag of every backing index as it was
C3_QueryChangeKeepsChecked ==
    [][(multiSelect /\ phase = "running" /\ query' # query) => checked' = checked]_vars

\* a checked item is hidden by the current query
C3_Witness ==
    /\ multiSelect
    /\ phase = "running"
    /\ lastKey = "edit"
    /\ query # <<>>
    /\ \E i \in 0..(Len(items) - 1) : checked[i] /\ TimesRanked(i) = 0

\* the values of the checked backing items, in backing-list order
RECURSIVE ValuesOfChecked(_)
ValuesOfChecked(i) ==
    IF i > Len(items) THEN <<>>
    ELSE IF checked[i - 1] THEN <<items[i].Value>> \o ValuesOfChecked(i + 1)
    ELSE ValuesOfChecked(i + 1)

\* C4: a multi-select session that the confirm key ended returns the values
\* of exactly the checked backing items, in backing-list order
C4_ConfirmReturnsChecked ==
    (multiSelect /\ phase = "returned" /\ err = "nil" /\ termKey = "enter") =>
        retValues = ValuesOfChecked(1)

\* C5: a single-select session that received the confirm key over a
\* non-empty ranked view returns the value that was under the cursor then
C5_ConfirmReturnsValueAtCursor ==
    (~multiSelect /\ phase = "returned" /\ err = "nil"
         /\ termKey = "enter" /\ atConfirm # "") =>
        retValue = atConfirm

\* C6: once the cancel key has been handled the session is cancelled and
\* stopping, and when the event loop then ends Select returns the empty
\* value, MultiSelect returns no values, and neither returns an error
C6_CancelReturnsNothing ==
    /\ (termKey = "cancel" => cancelled)
    /\ (cancelled => quitting /\ quitSent)
    /\ (phase = "returned" /\ cancelled /\ err # "run") =>
          (retValue = "" /\ retValues = <<>> /\ err = "nil")

\* a cancelled multi-select session has returned while items were checked
C6_Witness ==
    /\ phase = "returned"
    /\ err = "nil"
    /\ multiSelect
    /\ termKey = "cancel"
    /\ \E i \in 0..(Len(items) - 1) : checked[i]

----------------------------------------------------------------------------
(* Properties of the Copy Plan.                                            *)

\* the Copy Plan of this call has been computed
planReady == nextPath > 0

\* the candidates filterDescendants works on: the normalised match set
candidates == {normalizeRelPath(p) : p \in matches}

\* some entry of the Copy Plan that is a real directory of the source is a
\* strict ancestor of p
underPlannedDir(p) ==
    \E i \in 1..Len(paths) :
        isRealDir(srcDir, paths[i]) /\ HasPrefix(p, paths[i] \o Sep)

\* p is no descendant of the planned directory d, but p's name starts
\* with d's name
siblingByName(p, d) == p # d /\ HasPrefix(p, d) /\ ~HasPrefix(p, d \o Sep)

\* C7: no entry of the Copy Plan is a strict ancestor of another entry
\* unless it is not a real directory of the source; and a candidate whose
\* name only starts with the name of a planned directory, and that lies
\* under no planned directory, stays in the plan
C7_NoEntryUnderPlannedDir ==
    planReady =>
        /\ \A i, j \in 1..Len(paths) :
              HasPrefix(paths[j], paths[i] \o Sep) => ~isRealDir(srcDir, paths[i])
        /\ \A p \in candidates :
              (/\ \E i \in 1..Len(paths) :
                     isRealDir(srcDir, paths[i]) /\ siblingByName(p, paths[i])
               /\ ~underPlannedDir(p))
                  => p \in Range(paths)

\* the plan keeps a real directory and a sibling that shares its name
\* prefix, drops a candidate under that directory, and keeps an entry under
\* an entry that is a symlink
C7_Witness ==
    /\ planReady
    /\ \E i, j \in 1..Len(paths) :
          /\ isRealDir(srcDir, paths[i])
          /\ siblingByName(paths[j], paths[i])
          /\ \E p \in candidates :
                HasPrefix(p, paths[i] \o Sep) /\ p \notin Range(paths)
    /\ \E i, j \in 1..Len(paths) :
          /\ HasPrefix(paths[j], paths[i] \o Sep)
          /\ lstatNode(srcDir, paths[i]).kind = "link"

\* C8: every candidate that is a plain file or a symlink of the source is
\* an entry of the Copy Plan
C8_FilesAndSymlinksKept ==
    planReady =>
        \A p \in candidates :
            lstatNode(srcDir, p).kind \in {"file", "link"} => p \in Range(paths)

\* the pattern list in the order given by the permutation f
permuted(f) == [i \in 1..Len(patterns) |-> patterns[f[i]]]

\* C9: every permutation of the pattern list has the Copy Plan of the call
C9_PlanIgnoresPatternOrder ==
    planReady =>
        \A f \in Permutations(1..Len(patterns)) :
            copyPlan(srcDir, permuted(f)) = [err |-> "nil", paths |-> paths]

\* an exclude pattern stands before an include pattern, and it removes
\* something that include pattern matches
C9_Witness ==
    /\ planReady
    /\ Len(patterns) = 2
    /\ isExclude(patterns[1])
    /\ isInclude(patterns[2])
    /\ findMatches(srcDir, TrimPrefix(patterns[1], <<"!">>)).found
           \cap findMatches(srcDir, patterns[2]).found # {}
    /\ paths # <<>>

\* C10: no path that an exclude pattern of the list matches is an entry of
\* the Copy Plan
C10_ExcludedNotPlanned ==
    planReady =>
        \A i \in 1..Len(paths) :
            \A k \in 1..Len(excludePatterns(patterns)) :
                paths[i] \notin findMatches(srcDir, excludePatterns(patterns)[k]).found

----------------------------------------------------------------------------
(* Properties of findMatches.                                              *)

\* the patterns CopyFiles hands to findMatches: the include patterns, and
\* the exclude patterns without their mark
matchedPatterns ==
    Range(includePatterns(patterns)) \cup Range(excludePatterns(patterns))

isLiteral(p) == ~ContainsAny(p, GlobChars)

\* the path names an entry below the source root (the entry itself, not
\* what a symlink at that path points to)
existsInSource(rel) == rel # <<>> /\ lstatNode(srcDir, rel).kind # "none"

C12_TrailingSeparatorSameMatches ==
    planReady =>
        \A p \in matchedPatterns :
            findMatches(srcDir, p \o Sep) = findMatches(srcDir, p)

----------------------------------------------------------------------------
(* Properties of the copy loop.                                            *)

\* CopyFiles is about to copy the entry paths[nextPath]
atEntry == cpc = "copying" /\ nextPath <= Len(paths)

\* what os.Lstat finds at the path in the source and in the destination:
\* "none", "file", "dir" or "link"
srcKind(rel) == lstatNode(srcDir, rel).kind

destKind(rel) == lstatNode(destDir, rel).kind

destinationConflict(rel) ==
    \/ srcKind(rel) \in {"file", "link"} /\ destKind(rel) = "dir"
    \/ srcKind(rel) = "dir" /\ destKind(rel) \in {"file", "link"}

ConflictCauses ==
    {"destination exists and is a directory",
     "destination exists and is not a directory"}

\* C13: at an entry that is a non-directory in the source and a real
\* directory in the destination, or a real directory in the source and a
\* non-directory in the destination, CopyFiles returns the conflict error
\* that names the entry, and leaves the destination and the notifications
\* as they are
C13_ConflictIsError ==
    [][(atEntry /\ destinationConflict(paths[nextPath])) =>
          /\ cpc' = "returned"
          /\ cerr'.msg = "failed to copy"
          /\ cerr'.subject = paths[nextPath]
          /\ cerr'.cause \in ConflictCauses
          /\ destDir' = destDir
          /\ stderr' = stderr]_vars

\* CopyFiles returned the conflict error for the file "a" whose destination
\* is a directory, and the destination is as the call found it
C13_Witness ==
    /\ cpc = "returned"
    /\ cerr.cause = "destination exists and is a directory"
    /\ cerr.subject = pathA
    /\ srcDir[pathA].kind = "file"
    /\ destDir[pathA].kind = "dir"
    /\ destDir = calls[Len(calls)]

\* the step of CopyFiles that skips the entry paths[nextPath]
skipsEntry ==
    /\ cpc' = "copying"
    /\ nextPath' = nextPath + 1
    /\ cerr' = cerr
    /\ destDir' = destDir
    /\ stderr' = stderr

\* C14: an entry that is a file or a symlink in the source and whose
\* destination exists in any form is skipped: no error, no change of the
\* destination, no notification, and the loop goes on
C14_ExistingDestinationSkipped ==
    [][(atEntry /\ srcKind(paths[nextPath]) \in {"file", "link"}
               /\ destKind(paths[nextPath]) # "none") => skipsEntry]_vars

\* C14 as amended: the destination exists as a file or a symlink
C14_ExistingNonDirectorySkipped ==
    [][(atEntry /\ srcKind(paths[nextPath]) \in {"file", "link"}
               /\ destKind(paths[nextPath]) \in {"file", "link"})
           => skipsEntry]_vars

\* the first entry, a file of the source, was skipped: the destination
\* still has its own file there, and nothing was notified
C14_Witness ==
    /\ cpc = "copying"
    /\ nextPath = 2
    /\ srcKind(paths[1]) = "file"
    /\ lstatNode(destDir, paths[1]) = File(OldContent)
    /\ destDir = calls[Len(calls)]
    /\ stderr = <<>>

\* the entry paths[nextPath] is a real directory in the source and in the
\* destination
atMerge ==
    /\ atEntry
    /\ srcKind(paths[nextPath]) = "dir"
    /\ destKind(paths[nextPath]) = "dir"

\* the path of the source that corresponds to the path q below the
\* destination of the entry rel
sourceOf(q, rel) ==
    rebase(q, Lstat(destDir, rel).path, Lstat(srcDir, rel).path)

\* C15: the step that merges an entry leaves every file the destination
\* directory had with its content, and gives the destination every source
\* file below the entry that it lacked, with the source content
C15_MergeKeepsAndAdds ==
    [][atMerge =>
          \A q \in PathUniverse :
              below(q, Lstat(destDir, paths[nextPath]).path) =>
                  /\ destDir[q].kind = "file" => destDir'[q] = destDir[q]
                  /\ (/\ destDir[q].kind = "none"
                      /\ nodeAt(srcDir, sourceOf(q, paths[nextPath])).kind = "file")
                         => destDir'[q] = nodeAt(srcDir, sourceOf(q, paths[nextPath]))
      ]_vars

C17_SymlinksNotFollowed ==
    \A q \in PathUniverse :
        destDir[q] # calls[Len(calls)][q] => destDir[q] = srcDir[q]

\* C18: a step of the copy loop writes the notification of its entry
\* exactly when it has put something into the destination, and the
\* notifications written so far are in sorted order, each path once
C18_NotifiesWhatWasCopied ==
    [][atEntry =>
          /\ stderr' = IF destDir' # destDir
                       THEN Append(stderr, paths[nextPath])
                       ELSE stderr
          /\ \A i \in 1..(Len(stderr') - 1) :
                 stringLess(stderr'[i], stderr'[i + 1])]_vars

----------------------------------------------------------------------------
(* Properties of the errors of CopyFiles.                                  *)

\* a glob with a character class that is not closed
unclosedClass(p) ==
    \E i \in 1..Len(p) : p[i] = "[" /\ \A j \in (i + 1)..Len(p) : p[j] # "]"

malformedAt(i) == unclosedClass(TrimPrefix(patterns[i], <<"!">>))

\* the error says which pattern could not be matched: an include pattern
\* as it is, an exclude pattern as "exclude pattern" and what follows its
\* mark
namesPattern(e, p) ==
    IF isExclude(p)
    THEN e.msg = "error matching exclude pattern"
             /\ e.subject = TrimPrefix(p, <<"!">>)
    ELSE e.msg = "error matching pattern" /\ e.subject = p

\* C19: with a malformed pattern anywhere in the list CopyFiles never
\* reaches the copy loop, and it returns an error that names a malformed
\* pattern of the list, with the destination and the notifications as the
\* call found them
C19_MalformedPatternIsError ==
    (\E i \in 1..Len(patterns) : malformedAt(i)) =>
        /\ cpc \in {"called", "returned"}
        /\ cpc = "returned" =>
              /\ \E i \in 1..Len(patterns) :
                     malformedAt(i) /\ namesPattern(cerr, patterns[i])
              /\ destDir = calls[Len(calls)]
              /\ stderr = <<>>

\* the malformed pattern is an exclude pattern that stands after an include
\* pattern with matches, and CopyFiles returned the error that names it
C19_Witness ==
    /\ cpc = "returned"
    /\ patterns = << <<"*">>, <<"!", "[">> >>
    /\ findMatches(srcDir, patterns[1]).found # {}
    /\ cerr.msg = "error matching exclude pattern"
    /\ cerr.subject = <<"[">>
    /\ destDir = calls[1]

\* a symlink of the destination stands at, or above, the parent directory
\* of the entry
parentIsSymlinked(rel) ==
    \E q \in PathUniverse :
        /\ destDir[q].kind = "link"
        /\ (q = pathDir(rel) \/ HasPrefix(pathDir(rel), q \o Sep))

\* a file system error at the entry: the source entry cannot be read, or
\* the parent directory of the destination cannot be made and no symlink
\* is in the way
filesystemError(rel) ==
    \/ srcKind(rel) = "none"
    \/ /\ destKind(rel) = "none"
       /\ ~MkdirAll(destDir, pathDir(rel)).ok
       /\ ~parentIsSymlinked(rel)

\* C20: a file system error at an entry makes CopyFiles return the error
\* that names the entry, with nothing copied for it or after it
C20_FilesystemErrorAborts ==
    [][(atEntry /\ filesystemError(paths[nextPath])) =>
          /\ cpc' = "returned"
          /\ cerr'.msg = "failed to copy"
          /\ cerr'.subject = paths[nextPath]
          /\ destDir' = destDir
          /\ stderr' = stderr]_vars

----------------------------------------------------------------------------
(* Properties of the confirm prompt.                                       *)

\* a step in which confirmModel.Update handled the key lastKey'
confirmKeyStep == phase = "confirming" /\ phase' = "confirming"

\* the step returned tea.Quit while none was in flight
quitIssued == quitSent' /\ ~quitSent

pendingKeys == {"left", "h", "right", "l"}

yesNoKeys == {"y", "Y", "n", "N"}

cancelKeys == {"ctrl+c", "esc"}

\* Update left the outcome of the prompt as it was
outcomeKept ==
    /\ quitSent' = quitSent
    /\ confirmModel'.quitting = confirmModel.quitting
    /\ confirmModel'.result = confirmModel.result

\* C21 as stated: the left/right keys and the yes/no keys only set the
\* pending boolean and do not end the session; the session is ended only by
\* the confirm key, with the pending boolean as result, or by the cancel
\* key, with result false.
C21_YesNoKeysOnlySetPending ==
    [][confirmKeyStep =>
         /\ (lastKey' \in pendingKeys \cup yesNoKeys) => outcomeKept
         /\ quitIssued =>
              \/ lastKey' = "enter" /\ confirmModel'.result = confirmModel.selected
              \/ lastKey' \in cancelKeys /\ confirmModel'.result = FALSE]_vars

\* C21, amended: the left/right keys only set the pending boolean and do
\* not end the session; the confirm key ends it with the pending boolean as
\* result, the cancel key and n/N end it with result false, y/Y end it with
\* result true, and no other key ends it.
C21_OnlyArrowsSetPending ==
    [][confirmKeyStep =>
         /\ (lastKey' \in {"left", "h"}) =>
              (outcomeKept /\ confirmModel'.selected = TRUE)
         /\ (lastKey' \in {"right", "l"}) =>
              (outcomeKept /\ confirmModel'.selected = FALSE)
         /\ (lastKey' \notin pendingKeys) =>
              confirmModel'.selected = confirmModel.selected
         /\ (lastKey' \in {"enter"} \cup cancelKeys \cup yesNoKeys) =>
              (quitSent' /\ confirmModel'.quitting)
         /\ (lastKey' = "enter") => confirmModel'.result = confirmModel.selected
         /\ (lastKey' \in cancelKeys \cup {"n", "N"}) =>
              confirmModel'.result = FALSE
         /\ (lastKey' \in {"y", "Y"}) => confirmModel'.result = TRUE
         /\ quitIssued =>
              lastKey' \in {"enter"} \cup cancelKeys \cup yesNoKeys]_vars

\* left, then the confirm key: Confirm has returned the pending boolean
C21_Witness ==
    /\ phase = "confirmReturned"
    /\ termKey = "enter"
    /\ lastKey = "enter"
    /\ confirmModel.selected
    /\ retConfirm

----------------------------------------------------------------------------
(* Properties of the way Select, MultiSelect and Confirm start and end.    *)

\* the call is one of Select / MultiSelect
inSelect == phase \in {"called", "running", "returned"}

\* no selectorModel was built and Update handled nothing
noSessionState ==
    /\ filtered = <<>>
    /\ cursor = 0
    /\ selected = ""
    /\ query = <<>>
    /\ ~quitting
    /\ ~cancelled
    /\ ~quitSent
    /\ lastKey = "none"
    /\ termKey = "none"

\* C22: Select and MultiSelect called with zero backing items return the
\* usage error at once: the terminal stream is never opened, no session
\* state is created and the event loop, which renders the frames, never
\* runs.
C22_NoItemsIsUsageError ==
    (inSelect /\ Len(items) = 0) =>
        /\ tty = "unopened"
        /\ phase # "running"
        /\ noSessionState
        /\ (phase = "returned") =>
             (err = "no items to select" /\ retValue = "" /\ retValues = <<>>)

\* MultiSelect over no items has returned
C22_Witness ==
    /\ phase = "returned"
    /\ multiSelect
    /\ Len(items) = 0
    /\ err = "no items to select"

\* the function has returned to its caller
hasReturned == phase \in {"returned", "confirmReturned"}

\* C23: in Select, MultiSelect and Confirm the terminal stream, once
\* opened, is closed exactly once before the function returns, on every
\* exit path (a value, a cancel, an error of the UI program); a failure to
\* open it is returned as an error, with no retry and no session.
C23_TtyClosedOnEveryReturn ==
    [][/\ (tty = "open" /\ hasReturned') => tty' = "closed"
       /\ (tty # tty') =>
            \/ (tty = "unopened" /\ tty' = "open"
                  /\ phase' \in {"running", "confirming"})
            \/ (tty = "open" /\ tty' = "closed" /\ hasReturned')
       /\ (phase' \in {"running", "confirming"}) => tty' = "open"
       /\ (err' = "failed to open /dev/tty") =>
            (hasReturned' /\ tty' = "unopened" /\ noSessionState'
               /\ confirmModel' = newConfirmModel /\ phase # phase')
       /\ hasReturned => UNCHANGED vars]_vars

\* Confirm has returned the error of the UI program, the tty is closed
C23_Witness ==
    /\ phase = "confirmReturned"
    /\ err = "run"
    /\ tty = "closed"
    /\ lastKey = "left"

----------------------------------------------------------------------------
(* Properties of wt add.                                                   *)

\* CopyFiles has returned an error to runAdd
copyFailed == cpc = "returned" /\ cerr # NoError

\* C24: in wt add a copy failure aborts the command: when CopyFiles returns
\* an error, runAdd returns an error, no post-creation hook is started, no
\* tmux window is opened and neither the worktree path nor a cd line is
\* written to standard output.
C24_CopyFailureAbortsAdd ==
    copyFailed =>
        /\ apc \in {"copying", "returned"}
        /\ hookLog = <<>>
        /\ tmux = "none"
        /\ stdout = <<>>
        /\ (apc = "returned") =>
             (addErr.msg = "failed to copy files" /\ addErr.name = cerr.msg)

\* wt add --tmux with hooks configured has returned the copy error
C24_Witness ==
    /\ copyFailed
    /\ apc = "returned"
    /\ Len(hooks) > 0
    /\ addTmux
    /\ cerr.msg = "failed to copy"

\* the positions of hooks.Run's log that are about hook i
logOf(i) == {k \in 1..Len(hookLog) : hookLog[k].hook = i}

\* hook j was passed before position k of the log: skipped, or run to a
\* successful exit
passedBefore(j, k) ==
    \E n \in 1..(k - 1) :
        /\ hookLog[n].hook = j
        /\ hookLog[n].what \in {"skipped", "exited"}

\* runAdd is past hooks.Run without an error from it
hooksReturnedNil ==
    \/ apc = "hooked"
    \/ /\ apc = "returned"
       /\ addErr.msg \in {"nil", "not inside a tmux session", "failed"}

\* C25: hooks.Run executes the hooks one at a time in configuration order:
\* a hook is started only after every earlier hook has exited successfully
\* or been skipped for its missing if_exists path; after the first hook
\* that fails no later hook is started and an error naming that hook is
\* returned.
C25_HooksRunInOrder ==
    /\ \A k \in 1..Len(hookLog) :
         /\ (hookLog[k].what = "started") =>
              /\ \A j \in 1..(hookLog[k].hook - 1) : passedBefore(j, k)
              /\ \A n \in 1..(k - 1) :
                   hookLog[n].what # "failed" /\ hookLog[n].hook # hookLog[k].hook
              /\ (k < Len(hookLog)) =>
                   /\ hookLog[k + 1].hook = hookLog[k].hook
                   /\ hookLog[k + 1].what \in {"exited", "failed"}
         /\ (hookLog[k].what = "skipped") =>
              hooks[hookLog[k].hook].IfExists # ""
         /\ (hookLog[k].what = "failed") =>
              /\ k = Len(hookLog)
              /\ apc = "returned"
              /\ addErr = [msg |-> "hook failed",
                           name |-> hooks[hookLog[k].hook].Name]
    /\ hooksReturnedNil =>
         \A j \in 1..Len(hooks) : passedBefore(j, Len(hookLog) + 1)

\* the first hook was skipped, the second was started and failed
C25_Witness ==
    /\ Len(hookLog) = 3
    /\ hookLog[1].what = "skipped"
    /\ hookLog[2].what = "started"
    /\ hookLog[3].what = "failed"
    /\ apc = "returned"

----------------------------------------------------------------------------
(* Properties of the cursor and of the ranked view.                        *)

\* the cursor points into the ranked view, or is 0 over an empty view
cursorInView ==
    IF Len(filtered) > 0 THEN cursor \in 0..(Len(filtered) - 1) ELSE cursor = 0

\* a step in which selectorModel.Update handled the key lastKey'
selectorKeyStep == phase = "running" /\ phase' = "running"

\* C26: in every reachable state of a selector session the cursor index is
\* between 0 and len(rankedView)-1 when the view is non-empty and 0 when it
\* is empty; up at index 0 and down at the last index (or over an empty
\* view) leave the cursor where it is, and elsewhere move it by one.
C26_CursorStaysInView ==
    /\ []cursorInView
    /\ [][selectorKeyStep =>
            /\ (lastKey' = "up") =>
                 cursor' = (IF cursor = 0 THEN 0 ELSE cursor - 1)
            /\ (lastKey' = "down") =>
                 cursor' = (IF cursor + 1 \in 1..(Len(filtered) - 1)
                            THEN cursor + 1 ELSE cursor)]_vars

\* down was handled and the cursor is at the last of two entries
C26_Witness ==
    /\ phase = "running"
    /\ lastKey = "down"
    /\ Len(filtered) = 2
    /\ cursor = 1
    /\ query # <<>>

\* the step changed the query, so filterItems ran on a new query
queryChanged == selectorKeyStep /\ query' # query

\* the cursor of before the step, clamped into the view of after it
clampedIntoNewView ==
    IF Len(filtered') = 0 THEN 0
    ELSE IF cursor <= Len(filtered') - 1 THEN cursor
    ELSE Len(filtered') - 1

\* C27 as stated: on every query change the cursor is clamped, not reset:
\* it keeps its value if that is still at most len(rankedView)-1, becomes
\* len(rankedView)-1 if it was beyond the end of a non-empty view, and 0 if
\* the view is empty; also when the new query is empty.
C27_QueryChangeClampsCursor ==
    [][queryChanged => cursor' = clampedIntoNewView]_vars

\* C27, amended: on every change to a non-empty query the cursor is
\* clamped, not reset; on a change to the empty query the cursor is reset
\* to 0.
C27_NonEmptyQueryClampsCursor ==
    [][queryChanged =>
         cursor' = (IF query' = <<>> THEN 0 ELSE clampedIntoNewView)]_vars

\* the query has just changed and the cursor is still on the second entry
C27_Witness ==
    /\ phase = "running"
    /\ lastKey = "edit"
    /\ query # <<>>
    /\ Len(filtered) = 2
    /\ cursor = 1

\* the cursor one entry further down, or where it is at the last entry
cursorAdvanced ==
    IF cursor + 1 \in 1..(Len(filtered) - 1) THEN cursor + 1 ELSE cursor

\* C28: the ranked view and the cursor clamp are recomputed only by events
\* that change the query: a key event that leaves the query text as it was
\* leaves the ranked view unchanged and changes the cursor only as the up,
\* down and toggle rules prescribe, so a key that is neither typing nor
\* navigation changes neither.
C28_OnlyQueryChangeRecomputes ==
    [][(selectorKeyStep /\ query' = query) =>
         /\ filtered' = filtered
         /\ cursor' =
              CASE lastKey' = "up" -> IF cursor = 0 THEN 0 ELSE cursor - 1
                [] lastKey' = "down" -> cursorAdvanced
                [] lastKey' = "tab" ->
                     IF multiSelect /\ Len(filtered) > 0 THEN cursorAdvanced
                     ELSE cursor
                [] OTHER -> cursor]_vars

\* C29: in multi-select mode over a non-empty ranked view the toggle key
\* flips the checked flag of exactly the backing index (origIndex) of the
\* entry at the cursor, leaves every other flag as it was, also when other
\* items have the same label or value, and then advances the cursor by one
\* unless it is at the last entry; in single-select mode or over an empty
\* view it changes neither the checked set nor the cursor.
C29_ToggleFlipsEntryAtCursor ==
    [][(selectorKeyStep /\ lastKey' = "tab") =>
         IF multiSelect /\ Len(filtered) > 0
         THEN /\ items[filtered[cursor + 1].origIndex + 1]
                   = filtered[cursor + 1].item
              /\ checked' =
                   [i \in DOMAIN checked |->
                      IF i = filtered[cursor + 1].origIndex THEN ~checked[i]
                      ELSE checked[i]]
              /\ cursor' = cursorAdvanced
         ELSE checked' = checked /\ cursor' = cursor]_vars

\* of two equal items only the second is checked, by a toggle under a query
C29_Witness ==
    /\ phase = "running"
    /\ multiSelect
    /\ lastKey = "tab"
    /\ query # <<>>
    /\ Len(items) = 2
    /\ items[1] = items[2]
    /\ ~checked[0]
    /\ checked[1]

\* C30: for every backing list and non-empty query the ranked view that
\* filterItems leaves holds only entries whose score is greater than 0, and
\* no entry has a higher score than an entry before it.
C30_RankedByScoreDescending ==
    (phase \in {"running", "returned"} /\ query # <<>>) =>
        /\ \A k \in 1..Len(filtered) :
             /\ filtered[k].score > 0
             /\ filtered[k].score
                  = matchResult[filtered[k].item.Label, ToLower(query)].Score
        /\ \A k \in 1..Len(filtered) : \A n \in (k + 1)..Len(filtered) :
             filtered[n].score <= filtered[k].score

\* the second backing item has the higher score and is ranked first
C30_Witness ==
    /\ phase = "running"
    /\ query # <<>>
    /\ Len(filtered) = 2
    /\ filtered[1].origIndex = 1
    /\ filtered[1].score > filtered[2].score

----------------------------------------------------------------------------
(* Properties of the copied tree.                                          *)

\* the paths the exclude patterns of the list match in the source
excludedPaths ==
    UNION {findMatches(srcDir, excludePatterns(patterns)[k]).found :
             k \in 1..Len(excludePatterns(patterns))}

\* the first call, into an empty destination, has returned nil
copiedIntoEmpty ==
    /\ cpc = "returned"
    /\ cerr = NoError
    /\ Len(calls) = 1
    /\ calls[1] = EmptyTree

\* C31: exclusion always wins: after a successful CopyFiles into an empty
\* destination no file or symlink of the source that an exclude pattern
\* matches is in the destination, whichever include patterns match it or a
\* directory above it.  (Directories are left aside here: os.MkdirAll
\* makes the parents of an entry without copying them.)
C31_ExcludedNeverCopied ==
    copiedIntoEmpty =>
        \A p \in excludedPaths :
            srcKind(normalizeRelPath(p)) \in {"file", "link"} =>
                destKind(normalizeRelPath(p)) = "none"

----------------------------------------------------------------------------
(* Properties of the end of a session.                                     *)

\* C32: the terminal state of a session is absorbing: once Update has
\* processed a terminating key, a further key handed to Update before the
\* event loop stops leaves the cancelled flag, the selected value, the
\* checked set and the confirm result as they were.
C32_TerminalStateAbsorbing ==
    [][((selectorKeyStep \/ confirmKeyStep) /\ quitSent) =>
         /\ cancelled' = cancelled
         /\ selected' = selected
         /\ checked' = checked
         /\ confirmModel'.result = confirmModel.result]_vars

\* the path is relative and none of its segments steps out of the root
staysUnderRoot(p) ==
    /\ p # <<>>
    /\ p[1] # "/"
    /\ \A i \in 1..Len(Split(p)) : Split(p)[i] # <<".", ".">>

\* C33: for every pattern list every entry of the Copy Plan is a relative
\* path that stays under the source root: it is not absolute and does not
\* leave the root through ".." segments, so that CopyFiles reads only
\* below the source directory and writes only below the destination.
C33_PlanStaysUnderRoot ==
    planReady =>
        \A i \in 1..Len(paths) :
            /\ staysUnderRoot(paths[i])
            /\ Lstat(srcDir, paths[i]).ok => Lstat(srcDir, paths[i]).path # Outside

\* how often the path is an entry of the Copy Plan
timesPlanned(p) == Cardinality({i \in 1..Len(paths) : paths[i] = p})

\* C34: descendant filtering loses no candidate: each path of the match set
\* is an entry of the Copy Plan exactly once, or lies strictly under an
\* entry of the Copy Plan that is a real (non-symlink) directory of the
\* source.
C34_NoCandidateLost ==
    planReady =>
        /\ \A p \in matches : timesPlanned(p) = 1 \/ underPlannedDir(p)
        /\ \A i \in 1..Len(paths) : timesPlanned(paths[i]) = 1


----------------------------------------------------------------------------
(* Rendering of one row's label: renderHighlightedLabel, called by View.   *)

\* the length of one rune's UTF-8 encoding
runeLen(c) == IF IsAscii(c) THEN 1 ELSE 2

\* the index that `for i, r := range label` gives the rune number k
\* (counted from 1): the byte offset of the rune in the string
RECURSIVE byteOffset(_, _)
byteOffset(label, k) ==
    IF k <= 1 THEN 0 ELSE byteOffset(label, k - 1) + runeLen(label[k - 1])

\* renderHighlightedLabel: the style each rune of the label is rendered in
renderHighlightedLabel(label, positions) ==
    [k \in 1..Len(label) |->
        IF Len(positions) = 0 THEN "base"
        ELSE IF byteOffset(label, k) \in Range(positions) THEN "match"
        ELSE "base"]

\* the runes of a row that View renders in the match style (counted from 0)
renderedAsMatch(row) ==
    {k - 1 : k \in {j \in 1..Len(row.item.Label) :
        renderHighlightedLabel(row.item.Label, row.positions)[j] = "match"}}

\* the runes of a row the matcher reported as matched (counted from 0)
reportedAsMatch(row) == Range(row.positions)

\* View draws the rows: a session is running and has not been ended
viewDrawsRows == phase = "running" /\ ~quitting

\* C35: while a session with a non-empty query draws its rows, every row of
\* the ranked view has at least one highlight position, and the label
\* characters rendered in the match style are exactly the characters the
\* matcher reported as matched, labels with non-ASCII characters included.
C35_HighlightIsTheMatch ==
    (viewDrawsRows /\ query # <<>>) =>
        \A i \in 1..Len(filtered) :
            /\ Len(filtered[i].positions) >= 1
            /\ renderedAsMatch(filtered[i]) = reportedAsMatch(filtered[i])


----------------------------------------------------------------------------
\* Confirm has returned the answer of a session
confirmAnswered == phase = "confirmReturned" /\ err = "nil"

\* the session ended on a key that answers yes: y/Y, or the confirm key
\* with left (or h) as the last left/right key before it
endedOnYes ==
    \/ termKey \in {"y", "Y"}
    \/ termKey = "enter" /\ atConfirm \in {"left", "h"}

\* C36: Confirm defaults to No.  It returns true only if the session ended
\* on y/Y, or on the confirm key with left (or h) as the last left/right
\* key before it; a session that ended on the confirm key with no key
\* before it, on the cancel key or on n/N returns false.
C36_ConfirmDefaultsToNo ==
    confirmAnswered => (retConfirm => endedOnYes)


----------------------------------------------------------------------------
\* the step makes one git.RemoveWorktree call
removeCalled == Len(gitCalls') = Len(gitCalls) + 1

\* the call the step makes
newCall == gitCalls'[Len(gitCalls')]

\* the last call made failed on a dirty worktree at the path the loop is at
dirtyAtPath ==
    /\ Len(gitCalls) > 0
    /\ gitCalls[Len(gitCalls)].err = "ErrDirtyWorktree"
    /\ gitCalls[Len(gitCalls)].path = rmQueue[rmIdx + 1]

\* the step returns from runRemove with the error e
returnsError(e) == wpc' = "done" /\ cmdErr' = e

\* the step leaves removeWorktreeWithConfirm with nil, and runRemove goes on
\* to the path after this one
goesOnToNextPath ==
    /\ wpc' = "removing"
    /\ rmIdx' = rmIdx + 1
    /\ cmdErr' = "nil"
    /\ rmQueue' = rmQueue

\* C37: removeWorktreeWithConfirm makes a forced git.RemoveWorktree call only
\* if the force flag was given, or the last call failed on this path with
\* the dirty-worktree error and the confirm prompt then returned true.  A
\* removal that fails with any other error makes runRemove return that error
\* with no prompt; a prompt that failed makes it return the prompt's error
\* with no further call; a declined prompt makes no call, returns nil, and
\* the loop of runRemove goes on to the next path.
C37_ForceNeedsFlagOrYes ==
    [][/\ (removeCalled /\ newCall.force) =>
              \/ removeForce
              \/ prompted /\ err = "nil" /\ retConfirm /\ dirtyAtPath
       /\ (removeCalled /\ newCall.err = "exit status 128") =>
              /\ returnsError("exit status 128")
              /\ phase' = phase
       /\ (prompted /\ err # "nil") =>
              /\ gitCalls' = gitCalls
              /\ returnsError(err)
       /\ (prompted /\ err = "nil" /\ ~retConfirm) =>
              /\ gitCalls' = gitCalls
              /\ goesOnToNextPath]_vars

\* interactive wt rm without --force over two dirty worktrees: the first
\* prompt was declined, the second answered yes, and the second path alone
\* was removed by force
C37_Witness ==
    /\ wpc = "done"
    /\ cmdErr = "nil"
    /\ ~removeForce
    /\ Len(args) = 0
    /\ rmQueue = <<"/b", "/B/a">>
    /\ gitCalls = <<RemoveCall("/b", FALSE, "ErrDirtyWorktree"),
                    RemoveCall("/B/a", FALSE, "ErrDirtyWorktree"),
                    RemoveCall("/B/a", TRUE, "nil")>>


----------------------------------------------------------------------------
\* wt cd: Select has returned the outcome of a session that the confirm key
\* ended while the ranked view was empty
endedOnEmptyView ==
    /\ cmdName = "cd"
    /\ phase = "returned"
    /\ err = "nil"
    /\ termKey = "enter"
    /\ atConfirm = ""

\* C38: a single-select session that the confirm key ended while the ranked
\* view was empty returns the empty value with no error, as a cancelled one
\* does, and wt cd then prints nothing, opens no pane and returns nil.
C38_EmptyConfirmIsCancel ==
    endedOnEmptyView =>
        /\ retValue = ""
        /\ (wpc = "done") => (cmdOut = <<>> /\ pane = "" /\ cmdErr = "nil")


----------------------------------------------------------------------------
\* the line `bare` stands in the block of the listing that starts at line k
RECURSIVE bareFrom(_, _)
bareFrom(output, k) ==
    /\ k <= Len(output)
    /\ output[k].key # "worktree"
    /\ (output[k].key = "bare" \/ bareFrom(output, k + 1))

\* the lines of the listing that start a block
blockStarts(output) == {k \in 1..Len(output) : output[k].key = "worktree"}

\* the paths ListWorktrees marks as main, for every listing
mainPathsOf ==
    [output \in GitOutputs |->
        {w.Path : w \in {v \in Range(ListWorktrees(output)) : v.IsMain}}]

\* the paths ListWorktrees marks as main in the listing of this run
mainPaths == mainPathsOf[gitOutput]

\* the paths wt cd handed out: printed, or opened in a pane
handedOut ==
    {cmdOut[k][Len(cmdOut[k])] : k \in 1..Len(cmdOut)} \cup {pane, retValue}

\* C39: ListWorktrees marks the first listed worktree and every bare one as
\* main; the items wt cd and interactive wt rm pass to the selector hold no
\* worktree marked main; interactive wt rm never calls git.RemoveWorktree
\* for the main worktree, and wt cd never returns, prints or opens its path.
C39_MainNeverOffered ==
    /\ MainPath \in mainPaths
    /\ \A k \in blockStarts(gitOutput) :
           bareFrom(gitOutput, k + 1) => gitOutput[k].val \in mainPaths
    /\ \A i \in 1..Len(items) : items[i].Value \notin mainPaths
    /\ (cmdName = "rm" /\ Len(args) = 0) =>
           \A k \in 1..Len(gitCalls) : gitCalls[k].path \notin mainPaths
    /\ (cmdName = "cd") => (mainPaths \cap handedOut = {})

\* interactive wt rm over a listing with two linked worktrees removed both,
\* and neither is the main one
C39_Witness ==
    /\ cmdName = "rm"
    /\ Len(args) = 0
    /\ wpc = "done"
    /\ gitCalls = <<RemoveCall("/b", FALSE, "nil"),
                    RemoveCall("/B/a", FALSE, "nil")>>

====
